---- MODULE Spec2Model ----
(***************************************************************************)
(* Pair-trading system: the bar loop of the scalp and swing backtests      *)
(* (backtest_scalp.py, backtest_swing.py) and the decision cycle of        *)
(* AlpacaTrader (core/alpaca_trader.py), the ledger of TradeLogger         *)
(* (core/logger.py), the live pair loop (run_live_pair.py),                *)
(* calculate_rsi, the indicator frame of the swing backtest, the           *)
(* construction of AlpacaTrader and the results section of the backtests.  *)
(*                                                                         *)
(* Units.  Prices, cash and equity are integers (dollars); on the price    *)
(* grids used here the source's float arithmetic is exact.  Percentages    *)
(* of equity (PROFIT_TARGET, STOP_LOSS) are in permille, CAPITAL_USAGE in  *)
(* percent, z-scores in tenths.  The section on the cash arithmetic        *)
(* replays entries and exits at cent prices in binary64, where the         *)
(* source's sums and products round.                                       *)
(***************************************************************************)
EXTENDS Integers, Sequences, FiniteSets, TLC

VARIABLES
    cfg,               \* the strategy parameters of the run (module-level constants)
    bar_count,         \* number of bars processed so far
    portfolio,         \* the portfolio dict: cash, spy_shares, rsp_shares, entry_value
    current_position,  \* "None", "short_spy_long_rsp" or "long_spy_short_rsp"
    bars_in_position,  \* bars_in_position (scalp) / portfolio['days_in_trade'] (swing)
    bar,               \* the loop body's locals after the last processed bar
    trader,            \* AlpacaTrader: asset_class, dry_run, max_order_notional, starting_equity
    open_orders,       \* broker: the open orders of the instrument
    net_position,      \* broker: signed net position of the instrument, in quantity units
    trade_log,         \* TradeLogger: the rows of the trade file
    iteration,         \* run(): number of run_once calls made
    pc,                \* run(): "idle", "running", "done" or "crashed"
    cycle,             \* run_once: the locals of the last cycle
    ledger,            \* TradeLogger: its files, its construction and its last call
    live,              \* run_live_pair.py: the polling loop, its position and its orders
    series,            \* calculate_rsi: a price series, the period and the RSI column
    portfolio64,       \* the portfolio dict with its cash as a binary64 value
    frame,             \* backtest_swing.py: the rows of the indicator frame read so far
    construction,      \* AlpacaTrader(...): the arguments and the outcome of a construction
    results            \* the backtests' trade list and their results section

btVars == <<cfg, bar_count, portfolio, current_position, bars_in_position, bar>>

trVars == <<trader, open_orders, net_position, trade_log, iteration, pc, cycle>>

\* the state of the indicator and of the binary64 replay
auxVars == <<series, portfolio64, construction>>

vars == <<cfg, bar_count, portfolio, current_position, bars_in_position, bar,
          trader, open_orders, net_position, trade_log, iteration, pc, cycle, ledger,
          live, series, portfolio64, frame, construction, results>>

-----------------------------------------------------------------------------
(* Bounds of the model *)

\* number of bars of the input data that are replayed
MaxBars == 3

\* a maximum hold short enough to be reached within MaxBars
ShortHold == 2

\* run(iterations): the number of decision cycles of a session
MaxIterations == 2

-----------------------------------------------------------------------------
(* Strategy parameters *)

None == "None"
SHORT_SPY == "short_spy_long_rsp"
LONG_SPY == "long_spy_short_rsp"

\* backtest_scalp.py: HYPER-SHORT STRATEGY PARAMETERS
ScalpPreset ==
    [variant |-> "scalp",
     RSI_OVERBOUGHT |-> 65, RSI_OVERSOLD |-> 35,
     ZSCORE_HIGH |-> 0, ZSCORE_LOW |-> 0,
     CAPITAL_USAGE |-> 90,
     MIN_HOLD |-> 0, MAX_HOLD |-> 12,
     PROFIT_TARGET |-> 5, STOP_LOSS |-> 3]

\* backtest_swing.py: SWING STRATEGY PARAMETERS
SwingPreset ==
    [variant |-> "swing",
     RSI_OVERBOUGHT |-> 65, RSI_OVERSOLD |-> 35,
     ZSCORE_HIGH |-> 15, ZSCORE_LOW |-> -15,
     CAPITAL_USAGE |-> 80,
     MIN_HOLD |-> 3, MAX_HOLD |-> 20,
     PROFIT_TARGET |-> 30, STOP_LOSS |-> 40]

\* the two published presets
Presets == {ScalpPreset, SwingPreset}

\* The presets with other threshold values: a hold limit (and minimum hold)
\* that fits into MaxBars bars, and conflicting profit/stop thresholds
\* (a profit target below minus the stop loss, so that both can hold at once).
Retuned(p) ==
    { [p EXCEPT !.MAX_HOLD = ShortHold, !.MIN_HOLD = IF p.MIN_HOLD = 0 THEN 0 ELSE 1],
      [p EXCEPT !.PROFIT_TARGET = 0 - p.PROFIT_TARGET],
      [p EXCEPT !.PROFIT_TARGET = 0, !.STOP_LOSS = 0, !.MAX_HOLD = ShortHold] }

Configs == Presets \cup Retuned(ScalpPreset) \cup Retuned(SwingPreset)

\* the swing parameters with a hold of one bar less than ShortHold
QuickSwing == [SwingPreset EXCEPT !.MAX_HOLD = ShortHold - 1, !.MIN_HOLD = ShortHold - 1]

\* portfolio = {'cash': 100000, ...}
StartCash == 100000

-----------------------------------------------------------------------------
(* Input bars *)

\* Close prices of the two instruments
SpyPrices(c) == IF c.variant = "scalp" THEN {500, 510} ELSE {500, 550}
RspPrices(c) == IF c.variant = "scalp" THEN {100, 102} ELSE {100, 108}

\* a Close of the first instrument far above the grid (a gap of the data)
GapPrices == {1800}

\* ratio_rsi values: below/at the oversold level, around 50, at/above overbought
RsiValues == {30, 35, 50, 65, 70}

\* ratio_zscore values in tenths (swing only; the scalp loop reads no z-score)
ZValues(c) == IF c.variant = "scalp" THEN {0} ELSE {-20, -5, 5, 20}

-----------------------------------------------------------------------------
(* Arithmetic of the loop body *)

\* a // b for b > 0 (Python floor division)
FloorDiv(a, b) == a \div b

Abs(x) == IF x < 0 THEN 0 - x ELSE x

RECURSIVE GCD(_, _)
GCD(a, b) == IF b = 0 THEN a ELSE GCD(b, a % b)

\* a float that is NaN, and the float n/d (d > 0) in lowest terms
NaN == [defined |-> FALSE, num |-> 0, den |-> 1]
Ratio(n, d) ==
    [defined |-> TRUE, num |-> n \div GCD(Abs(n), d), den |-> d \div GCD(Abs(n), d)]

\* portfolio_value = cash + spy_shares * spy_price + rsp_shares * rsp_price
PortfolioValue(p, sp, rp) == p.cash + p.spy_shares * sp + p.rsp_shares * rp

\* pnl_pct >= t/1000, where pnl_pct = pnl / ev in IEEE arithmetic
\* (ev = 0 gives +inf, -inf or nan)
PnlPctGE(pnl, ev, t) ==
    IF ev > 0 THEN pnl * 1000 >= t * ev
    ELSE IF ev < 0 THEN pnl * 1000 <= t * ev
    ELSE pnl > 0

\* pnl_pct <= t/1000
PnlPctLE(pnl, ev, t) ==
    IF ev > 0 THEN pnl * 1000 <= t * ev
    ELSE IF ev < 0 THEN pnl * 1000 >= t * ev
    ELSE pnl < 0

\* MeanReversion without the minimum hold of the swing loop
MeanReversion_NoMinHold(c, pos, held, rsi, z) ==
    IF c.variant = "scalp"
    THEN \/ pos = SHORT_SPY /\ rsi < 50
         \/ pos = LONG_SPY /\ rsi > 50
    ELSE \/ pos = SHORT_SPY /\ rsi < 50 /\ z < 5
         \/ pos = LONG_SPY /\ rsi > 50 /\ z > -5

\* the mean-reversion branch of the exit chain (branch 4)
MeanReversion(c, pos, held, rsi, z) ==
    IF c.variant = "scalp"
    THEN \/ pos = SHORT_SPY /\ rsi < 50
         \/ pos = LONG_SPY /\ rsi > 50
    ELSE /\ held >= c.MIN_HOLD
         /\ \/ pos = SHORT_SPY /\ rsi < 50 /\ z < 5
            \/ pos = LONG_SPY /\ rsi > 50 /\ z > -5

\* the reason strings of branches 3 and 4
TimeLimit(c) == IF c.variant = "scalp" THEN "TIME LIMIT" ELSE "MAX HOLD"
Reversion(c) == IF c.variant = "scalp" THEN "RSI REVERSION" ELSE "MEAN REVERSION"

\* ExitReason with the stop-loss test moved in front of the profit-target test
ExitReason_StopFirst(c, pos, pnl, ev, held, rsi, z) ==
    IF PnlPctLE(pnl, ev, 0 - c.STOP_LOSS) THEN "STOP LOSS"
    ELSE IF PnlPctGE(pnl, ev, c.PROFIT_TARGET) THEN "PROFIT TARGET"
    ELSE IF held >= c.MAX_HOLD THEN TimeLimit(c)
    ELSE IF MeanReversion(c, pos, held, rsi, z) THEN Reversion(c)
    ELSE ""

\* the if/elif chain that sets should_exit and exit_reason ("" = no exit)
ExitReason(c, pos, pnl, ev, held, rsi, z) ==
    IF PnlPctGE(pnl, ev, c.PROFIT_TARGET) THEN "PROFIT TARGET"
    ELSE IF PnlPctLE(pnl, ev, 0 - c.STOP_LOSS) THEN "STOP LOSS"
    ELSE IF held >= c.MAX_HOLD THEN TimeLimit(c)
    ELSE IF MeanReversion(c, pos, held, rsi, z) THEN Reversion(c)
    ELSE ""

\* is the exit block evaluated at this bar?
ExitEvaluated(c, pos, ev) ==
    IF c.variant = "scalp" THEN pos # None ELSE pos # None /\ ev > 0

\* ClosePosition without the reset of portfolio['entry_value']
ClosePosition_KeepEntry(p, sp, rp) ==
    [cash |-> p.cash + p.spy_shares * sp + p.rsp_shares * rp,
     spy_shares |-> 0, rsp_shares |-> 0, entry_value |-> p.entry_value]

\* "Close position"
ClosePosition(p, sp, rp) ==
    [cash |-> p.cash + p.spy_shares * sp + p.rsp_shares * rp,
     spy_shares |-> 0, rsp_shares |-> 0, entry_value |-> 0]

\* EntrySide with the RSI thresholds included
EntrySide_Inclusive(c, rsi, z) ==
    IF c.variant = "scalp"
    THEN IF rsi >= c.RSI_OVERBOUGHT THEN SHORT_SPY
         ELSE IF rsi <= c.RSI_OVERSOLD THEN LONG_SPY ELSE ""
    ELSE IF rsi >= c.RSI_OVERBOUGHT /\ z > c.ZSCORE_HIGH THEN SHORT_SPY
         ELSE IF rsi <= c.RSI_OVERSOLD /\ z < c.ZSCORE_LOW THEN LONG_SPY ELSE ""

\* which entry branch is taken with no position ("" = none)
EntrySide(c, rsi, z) ==
    IF c.variant = "scalp"
    THEN IF rsi > c.RSI_OVERBOUGHT THEN SHORT_SPY
         ELSE IF rsi < c.RSI_OVERSOLD THEN LONG_SPY ELSE ""
    ELSE IF rsi > c.RSI_OVERBOUGHT /\ z > c.ZSCORE_HIGH THEN SHORT_SPY
         ELSE IF rsi < c.RSI_OVERSOLD /\ z < c.ZSCORE_LOW THEN LONG_SPY ELSE ""

\* position_size // price, with position_size = portfolio_value * CAPITAL_USAGE / 2
LegQty(c, pv, price) == FloorDiv(pv * c.CAPITAL_USAGE, 200 * price)

\* EnterPosition without the cash credit of the short sale
EnterPosition_NoCredit(c, p, s, pv, sp, rp) ==
    LET spy_shares == IF s = SHORT_SPY THEN 0 - LegQty(c, pv, sp) ELSE LegQty(c, pv, sp)
        rsp_shares == IF s = SHORT_SPY THEN LegQty(c, pv, rp) ELSE 0 - LegQty(c, pv, rp)
    IN  [cash |-> p.cash - (IF s = SHORT_SPY THEN rsp_shares * rp ELSE spy_shares * sp),
         spy_shares |-> spy_shares, rsp_shares |-> rsp_shares,
         entry_value |-> pv]

\* the entry branch for side s
EnterPosition(c, p, s, pv, sp, rp) ==
    LET spy_shares == IF s = SHORT_SPY THEN 0 - LegQty(c, pv, sp) ELSE LegQty(c, pv, sp)
        rsp_shares == IF s = SHORT_SPY THEN LegQty(c, pv, rp) ELSE 0 - LegQty(c, pv, rp)
    IN  [cash |-> p.cash - spy_shares * sp - rsp_shares * rp,
         spy_shares |-> spy_shares, rsp_shares |-> rsp_shares,
         entry_value |-> pv]

-----------------------------------------------------------------------------
(* The bar loop *)

NoBar ==
    [spy_price |-> 0, rsp_price |-> 0, ratio_rsi |-> 50, ratio_zscore |-> 0,
     portfolio_value |-> StartCash, position_at_open |-> None,
     entry_value |-> 0, held |-> 0, evaluated |-> FALSE,
     position_pnl |-> 0, days_held |-> 0, exit_reason |-> "", entered |-> ""]

InitBacktest(cs) ==
    /\ cfg \in cs
    /\ bar_count = 0
    /\ portfolio = [cash |-> StartCash, spy_shares |-> 0, rsp_shares |-> 0, entry_value |-> 0]
    /\ current_position = None
    /\ bars_in_position = 0
    /\ bar = NoBar

\* the body of "for date in spy_df.index" for one bar
BarStep(sp, rp, rsi, z) ==
    LET pv == PortfolioValue(portfolio, sp, rp)
        open == current_position # None
        held == IF open THEN bars_in_position + 1 ELSE bars_in_position
        evaluated == ExitEvaluated(cfg, current_position, portfolio.entry_value)
        pnl == pv - portfolio.entry_value
        reason == IF evaluated
                  THEN ExitReason(cfg, current_position, pnl, portfolio.entry_value, held, rsi, z)
                  ELSE ""
        exits == reason # ""
        p1 == IF exits THEN ClosePosition(portfolio, sp, rp) ELSE portfolio
        pos1 == IF exits THEN None ELSE current_position
        held1 == IF exits THEN 0 ELSE held
        side == IF pos1 = None THEN EntrySide(cfg, rsi, z) ELSE ""
        enters == side # ""
    IN  /\ bar_count < MaxBars
        /\ bar_count' = bar_count + 1
        /\ portfolio' = IF enters THEN EnterPosition(cfg, p1, side, pv, sp, rp) ELSE p1
        /\ current_position' = IF enters THEN side ELSE pos1
        /\ bars_in_position' = IF enters THEN 0 ELSE held1
        /\ bar' = [spy_price |-> sp, rsp_price |-> rp, ratio_rsi |-> rsi, ratio_zscore |-> z,
                   portfolio_value |-> pv, position_at_open |-> current_position,
                   entry_value |-> portfolio.entry_value, held |-> held,
                   evaluated |-> evaluated,
                   position_pnl |-> IF evaluated THEN pnl ELSE 0,
                   days_held |-> IF evaluated THEN held ELSE 0,
                   exit_reason |-> reason,
                   entered |-> side]
        /\ UNCHANGED <<cfg, trVars, ledger, auxVars>>

\* one iteration of "for date in spy_df.index"
ProcessBar(sp, rp, rsi, z) == BarStep(sp, rp, rsi, z) /\ UNCHANGED <<live, frame, results>>

ScalpBar ==
    /\ cfg.variant = "scalp"
    /\ \E sp \in SpyPrices(cfg), rp \in RspPrices(cfg), rsi \in RsiValues :
          ProcessBar(sp, rp, rsi, 0)

SwingBar ==
    /\ cfg.variant = "swing"
    /\ \E sp \in SpyPrices(cfg), rp \in RspPrices(cfg), rsi \in RsiValues, z \in ZValues(cfg) :
          ProcessBar(sp, rp, rsi, z)

\* a bar of either loop whose first Close gaps far above the previous bar
GapBar ==
    \E sp \in GapPrices, rp \in RspPrices(cfg), rsi \in RsiValues, z \in ZValues(cfg) :
        ProcessBar(sp, rp, rsi, z)

NextBacktest == ScalpBar \/ SwingBar

NextGaps == ScalpBar \/ SwingBar \/ GapBar

NextSwingGaps == SwingBar \/ GapBar

-----------------------------------------------------------------------------
(* AlpacaTrader: quantities, prices and the strategy's latest row *)

\* Quantities are counted in units of 1/QtyUnit of a share or coin, the
\* resolution math.floor(x * 1_000_000) / 1_000_000 keeps; int(qty) keeps
\* whole multiples of QtyUnit.
QtyUnit == 1000000

\* an optional number: <<>> for None / NaN, <<v>> for the value v
Nothing == <<>>
Some(v) == <<v>>
IsSome(x) == Len(x) > 0
ValueOr(x, d) == IF Len(x) > 0 THEN x[1] ELSE d

\* int(q) of a non-negative quantity
WholeShares(q) == FloorDiv(q, QtyUnit) * QtyUnit

\* account equity values the broker reports
EquityValues == {100, 103}

\* what api.get_account() delivers: an APIError (Nothing) or an account
AccountAnswers == {Nothing} \cup {Some(e) : e \in EquityValues}

\* _get_equity for an account that was delivered
GetEquity(account) == account[1]

\* what api.get_position() delivers: an APIError with status 404 when the
\* account holds no position, another APIError, or the position
PositionAnswers(net) ==
    {[status |-> 500, qty |-> 0, side |-> "long"],
     IF net = 0 THEN [status |-> 404, qty |-> 0, side |-> "long"]
     ELSE [status |-> 200, qty |-> Abs(net), side |-> IF net < 0 THEN "short" ELSE "long"]}

\* what api.submit_order() delivers: an order (TRUE) or an APIError (FALSE);
\* a crypto sale above the holdings is always refused
SubmitAnswers(t, d, qty, net) ==
    IF t.asset_class = "crypto" /\ d.side = "sell" /\ qty > net THEN {FALSE} ELSE BOOLEAN

\* _get_net_position that re-raises every APIError, status 404 included
GetNetPositionRaises_Every(answer) == answer.status # 200

\* does _get_net_position re-raise the APIError?
GetNetPositionRaises(answer) == answer.status \notin {200, 404}

\* _get_net_position
GetNetPosition(answer) ==
    IF answer.status = 404 THEN 0
    ELSE IF answer.side = "short" THEN 0 - answer.qty ELSE answer.qty

\* the strategy's latest row: signal, position, Close, limit_price, target_qty
\* (target_qty in quantity units for stock, in units of 1/QtyUnit dollar for crypto)
\* rows that carry a signal, a price and a quantity
SignalRows ==
    [signal : {Some(1), Some(-1)},
     position : {Nothing},
     Close : {Some(2)},
     limit_price : {Nothing, Some(3)},
     target_qty : {Some(QtyUnit \div 2), Some(3 * QtyUnit)}]

BaseRow ==
    [signal |-> Some(1), position |-> Nothing, Close |-> Some(2),
     limit_price |-> Nothing, target_qty |-> Some(3 * QtyUnit)]

\* rows with a zero or missing signal, price or quantity
DegenerateRows ==
    {[BaseRow EXCEPT !.signal = s, !.position = p] :
        s \in {Nothing, Some(0)}, p \in {Nothing, Some(0), Some(1), Some(-1)}}
    \cup {[BaseRow EXCEPT !.Close = Nothing], [BaseRow EXCEPT !.limit_price = Some(0)],
          [BaseRow EXCEPT !.target_qty = Nothing], [BaseRow EXCEPT !.target_qty = Some(1)]}

Rows == SignalRows \cup DegenerateRows

\* what fetch_latest_bars and strategy.run deliver: a ValueError, no bars,
\* no strategy rows, or a latest row
FetchResults ==
    {[kind |-> k, row |-> BaseRow] : k \in {"ValueError", "empty", "no_rows"}}
        \cup {[kind |-> "row", row |-> r] : r \in Rows}

NoDecision(reason) ==
    [ok |-> FALSE, reason |-> reason, side |-> "", qty |-> 0, price |-> 0,
     order_type |-> "", limit_price |-> Nothing]

\* _build_decision (for a df fetched without a ValueError)
BuildDecision(t, f) ==
    LET row == f.row
        signal == ValueOr(row.signal, 0)
        position == row.position
        price == ValueOr(row.Close, 0)
        limit_price == row.limit_price
        order_type == IF IsSome(limit_price) THEN "limit" ELSE "market"
        price_for_qty == IF IsSome(limit_price) THEN limit_price[1] ELSE price
        target == ValueOr(row.target_qty, 0)
        qty == IF t.asset_class = "crypto" /\ price_for_qty > 0
               THEN FloorDiv(target, price_for_qty) ELSE target
        side == IF signal # 0 THEN (IF signal > 0 THEN "buy" ELSE "sell")
                ELSE IF IsSome(position) /\ position[1] # 0
                     THEN (IF position[1] > 0 THEN "buy" ELSE "sell")
                     ELSE ""
    IN  IF f.kind = "empty" THEN NoDecision("no market data returned")
        ELSE IF f.kind = "no_rows" THEN NoDecision("strategy returned no rows")
        ELSE IF price <= 0 THEN NoDecision("missing price data")
        ELSE IF price_for_qty <= 0 THEN NoDecision("invalid price for sizing")
        ELSE IF target <= 0 THEN NoDecision("target_qty is zero")
        ELSE IF t.asset_class = "crypto" /\ qty <= 0
             THEN NoDecision("target_qty too small for crypto price")
        ELSE IF side = "" THEN NoDecision("no signal from strategy")
        ELSE [ok |-> TRUE, reason |-> "", side |-> side, qty |-> qty, price |-> price,
              order_type |-> order_type, limit_price |-> limit_price]

\* _adjust_qty_for_position without the two same-direction tests
AdjustQtyForPosition_AverageIn(t, d, net) ==
    IF t.asset_class = "crypto" /\ d.side = "sell" /\ net <= 0
    THEN [qty |-> 0, reason |-> "crypto shorting disabled"]
    ELSE IF t.asset_class = "stock"
         THEN IF WholeShares(d.qty) <= 0
              THEN [qty |-> 0, reason |-> "share quantity too small"]
              ELSE [qty |-> WholeShares(d.qty), reason |-> ""]
         ELSE [qty |-> d.qty, reason |-> ""]

\* _adjust_qty_for_position without the crypto shorting test
AdjustQtyForPosition_CryptoShort(t, d, net) ==
    IF d.side = "buy" /\ net > 0 THEN [qty |-> 0, reason |-> "already long"]
    ELSE IF d.side = "sell" /\ net < 0 THEN [qty |-> 0, reason |-> "already short"]
    ELSE IF t.asset_class = "stock"
         THEN IF WholeShares(d.qty) <= 0
              THEN [qty |-> 0, reason |-> "share quantity too small"]
              ELSE [qty |-> WholeShares(d.qty), reason |-> ""]
         ELSE [qty |-> d.qty, reason |-> ""]

\* _adjust_qty_for_position
AdjustQtyForPosition(t, d, net) ==
    IF d.side = "buy" /\ net > 0 THEN [qty |-> 0, reason |-> "already long"]
    ELSE IF d.side = "sell" /\ net < 0 THEN [qty |-> 0, reason |-> "already short"]
    ELSE IF t.asset_class = "crypto" /\ d.side = "sell" /\ net <= 0
         THEN [qty |-> 0, reason |-> "crypto shorting disabled"]
    ELSE IF t.asset_class = "stock"
         THEN IF WholeShares(d.qty) <= 0
              THEN [qty |-> 0, reason |-> "share quantity too small"]
              ELSE [qty |-> WholeShares(d.qty), reason |-> ""]
         ELSE [qty |-> d.qty, reason |-> ""]

\* the price _cap_qty_for_notional and _print_trade use
OrderPrice(d) == IF d.order_type = "limit" THEN d.limit_price[1] ELSE d.price

Min(a, b) == IF a <= b THEN a ELSE b

\* _cap_qty_for_notional that always divides by the close
CapQtyForNotional_ClosePrice(t, d, qty) ==
    IF qty <= 0 THEN qty
    ELSE IF ~IsSome(t.max_order_notional) THEN qty
    ELSE IF d.price <= 0 THEN qty
    ELSE LET max_qty == IF t.asset_class = "stock"
                        THEN FloorDiv(t.max_order_notional[1], d.price) * QtyUnit
                        ELSE FloorDiv(t.max_order_notional[1] * QtyUnit, d.price)
         IN  IF max_qty <= 0 THEN 0 ELSE Min(qty, max_qty)

\* _cap_qty_for_notional
CapQtyForNotional(t, d, qty) ==
    IF qty <= 0 THEN qty
    ELSE IF ~IsSome(t.max_order_notional) THEN qty
    ELSE IF OrderPrice(d) <= 0 THEN qty
    ELSE LET max_qty == IF t.asset_class = "stock"
                        THEN FloorDiv(t.max_order_notional[1], OrderPrice(d)) * QtyUnit
                        ELSE FloorDiv(t.max_order_notional[1] * QtyUnit, OrderPrice(d))
         IN  IF max_qty <= 0 THEN 0 ELSE Min(qty, max_qty)

\* TradeRecord with net_pnl measured against the equity of the previous record
TradeRecord_SincePrevious(t, d, qty, order_id, equity) ==
    [side |-> d.side, qty |-> qty, price |-> OrderPrice(d), order_type |-> d.order_type,
     order_id |-> order_id,
     status |-> IF order_id # "dry_run" THEN "submitted" ELSE "dry_run",
     equity |-> equity,
     net_pnl |-> equity - (IF Len(trade_log) > 0 THEN trade_log[Len(trade_log)].equity
                           ELSE t.starting_equity)]

\* the record TradeLogger.log_trade appends for _print_trade
TradeRecord(t, d, qty, order_id, equity) ==
    [side |-> d.side, qty |-> qty, price |-> OrderPrice(d), order_type |-> d.order_type,
     order_id |-> order_id,
     status |-> IF order_id # "dry_run" THEN "submitted" ELSE "dry_run",
     equity |-> equity, net_pnl |-> equity - t.starting_equity]

-----------------------------------------------------------------------------
(* TradeLogger (core/logger.py) *)

\* The rows of the trade file are kept in trade_log (the header line is not
\* counted); a row holds the columns the summary reads and the notes
\* (timestamp, symbol and strategy are left out).

\* number of TradeLogger calls of a run
MaxLedgerOps == 4

\* x or default, for an optional number (None and 0 both give the default)
OrZero(x) == IF IsSome(x) THEN x[1] ELSE 0

\* the record log_trade builds from its arguments
LogTradeRecord(a) ==
    [side |-> a.side, qty |-> a.qty, price |-> a.price, order_type |-> a.order_type,
     order_id |-> IF IsSome(a.order_id) THEN a.order_id[1] ELSE "",
     status |-> a.status,
     equity |-> OrZero(a.equity), net_pnl |-> OrZero(a.net_pnl),
     notes |-> a.notes]

\* the arguments log_skip passes to log_trade
LogSkipArgs(reason) ==
    [side |-> "none", qty |-> 0, price |-> 0, order_type |-> "market",
     order_id |-> Nothing, status |-> "skipped",
     equity |-> Nothing, net_pnl |-> Nothing, notes |-> reason]

\* arguments of log_trade calls
LogTradeCalls ==
    {[side |-> "buy", qty |-> 3, price |-> 2, order_type |-> "market",
      order_id |-> Some("oid"), status |-> "submitted",
      equity |-> Some(103), net_pnl |-> Some(3), notes |-> ""],
     [side |-> "sell", qty |-> 3, price |-> 3, order_type |-> "limit",
      order_id |-> Some("dry_run"), status |-> "dry_run",
      equity |-> Some(98), net_pnl |-> Some(-2), notes |-> ""],
     [side |-> "buy", qty |-> 1, price |-> 2, order_type |-> "market",
      order_id |-> Nothing, status |-> "rejected",
      equity |-> Nothing, net_pnl |-> Nothing, notes |-> "refused"],
     [side |-> "sell", qty |-> 1, price |-> 2, order_type |-> "market",
      order_id |-> Some("oid"), status |-> "submitted",
      equity |-> Nothing, net_pnl |-> Nothing, notes |-> ""]}

\* _init_csv that writes the header whether or not the file exists
InitCsv_Always(exists, rows) == <<>>

\* _init_csv: the rows of the file after it (a new file holds the header only)
InitCsv(exists, rows) == IF ~exists THEN <<>> ELSE rows

\* trades[-limit:]
LastRows(rows, limit) ==
    IF limit >= Len(rows) THEN rows ELSE SubSeq(rows, Len(rows) - limit + 1, Len(rows))

\* get_trades(limit)
GetTrades(exists, rows, limit) ==
    IF ~exists THEN <<>>
    ELSE IF IsSome(limit) /\ limit[1] # 0 THEN LastRows(rows, limit[1])
    ELSE rows

\* ExecutedTrades that drops the skipped rows only
RECURSIVE ExecutedTrades_SkippedOnly(_)
ExecutedTrades_SkippedOnly(rows) ==
    IF rows = <<>> THEN <<>>
    ELSE IF rows[1].status = "skipped"
         THEN ExecutedTrades_SkippedOnly(Tail(rows))
         ELSE <<rows[1]>> \o ExecutedTrades_SkippedOnly(Tail(rows))

\* [t for t in trades if t["status"] not in ("skipped", "rejected", "none")]
RECURSIVE ExecutedTrades(_)
ExecutedTrades(rows) ==
    IF rows = <<>> THEN <<>>
    ELSE IF rows[1].status \in {"skipped", "rejected", "none"}
         THEN ExecutedTrades(Tail(rows))
         ELSE <<rows[1]>> \o ExecutedTrades(Tail(rows))

\* sum(1 for t in executed_trades if t["side"] == side)
RECURSIVE CountSide(_, _)
CountSide(rows, side) ==
    IF rows = <<>> THEN 0
    ELSE (IF rows[1].side = side THEN 1 ELSE 0) + CountSide(Tail(rows), side)

\* the equities list: the positive equity values of the executed trades
RECURSIVE Equities(_)
Equities(rows) ==
    IF rows = <<>> THEN <<>>
    ELSE IF rows[1].equity > 0 THEN <<rows[1].equity>> \o Equities(Tail(rows))
         ELSE Equities(Tail(rows))

\* TradePnl that takes every net_pnl as it is
TradePnl_FromZero(rows, i) == rows[i].net_pnl

\* trade_pnl of the executed trade i: its net_pnl less that of the one before
TradePnl(rows, i) ==
    IF i > 1 THEN rows[i].net_pnl - rows[i - 1].net_pnl ELSE rows[i].net_pnl

\* sum(trade_pnls) over the first i executed trades
RECURSIVE SumTradePnl(_, _)
SumTradePnl(rows, i) ==
    IF i = 0 THEN 0 ELSE TradePnl(rows, i) + SumTradePnl(rows, i - 1)

\* np.maximum.accumulate(cumulative) at the return that ends at equity k
\* (k >= 2), times equities[1]: cumulative holds equities[j] / equities[1]
\* for j = 2..Len, so that the first equity is no element of it
RECURSIVE RunningMax(_, _)
RunningMax(equities, k) ==
    IF k = 2 THEN equities[2]
    ELSE IF equities[k] > RunningMax(equities, k - 1) THEN equities[k]
         ELSE RunningMax(equities, k - 1)

\* max_drawdown * 100 = min((cumulative - running_max) / running_max) * 100,
\* as an exact ratio
MaxDrawdown(equities) ==
    IF Len(equities) < 2 THEN Ratio(0, 1)
    ELSE LET ks == 2..Len(equities)
             Less(j, k) == (equities[j] - RunningMax(equities, j)) * RunningMax(equities, k)
                               <= (equities[k] - RunningMax(equities, k)) * RunningMax(equities, j)
             k == CHOOSE j \in ks : \A i \in ks : Less(j, i)
         IN  Ratio(100 * (equities[k] - RunningMax(equities, k)), RunningMax(equities, k))

\* the expressions that give volatility and sharpe_ratio: the literal 0.0, or
\* the statistic of the returns (their values are not computed here)
Volatility(equities) ==
    IF Len(equities) >= 3 THEN "std(returns) * 100" ELSE "0.0"

SharpeRatio(equities) ==
    IF Len(equities) >= 2 THEN "(mean / volatility if volatility > 0 else 0.0) * sqrt(252)"
    ELSE "0.0"

\* empty_result for start_equity = 0
NoSummary ==
    [total_trades |-> 0, buys |-> 0, sells |-> 0, wins |-> 0, losses |-> 0,
     win_rate |-> Ratio(0, 1), net_pnl |-> 0, start_equity |-> 0, end_equity |-> 0,
     sharpe_ratio |-> "0.0", volatility |-> "0.0", max_drawdown |-> Ratio(0, 1),
     avg_trade_pnl |-> Ratio(0, 1)]

\* get_session_summary(start_equity); the ratios are exact, where the source
\* computes them in binary64
GetSessionSummary(exists, rows, start_equity) ==
    LET executed == ExecutedTrades(GetTrades(exists, rows, Nothing))
        valid == Equities(executed)
        equities == IF valid = <<>> THEN <<start_equity>> ELSE valid
        end_equity == equities[Len(equities)]
        wins == Cardinality({i \in 1..Len(executed) : TradePnl(executed, i) > 0})
        losses == Cardinality({i \in 1..Len(executed) : TradePnl(executed, i) < 0})
    IN  IF executed = <<>>
        THEN [NoSummary EXCEPT !.start_equity = start_equity, !.end_equity = start_equity]
        ELSE [total_trades |-> Len(executed),
              buys |-> CountSide(executed, "buy"),
              sells |-> CountSide(executed, "sell"),
              wins |-> wins,
              losses |-> losses,
              win_rate |-> IF wins + losses > 0 THEN Ratio(wins * 100, wins + losses)
                           ELSE Ratio(0, 1),
              net_pnl |-> end_equity - start_equity,
              start_equity |-> start_equity,
              end_equity |-> end_equity,
              sharpe_ratio |-> SharpeRatio(equities),
              volatility |-> Volatility(equities),
              max_drawdown |-> MaxDrawdown(equities),
              avg_trade_pnl |-> Ratio(SumTradePnl(executed, Len(executed)), Len(executed))]

\* no TradeLogger constructed and no log files
NoLedger ==
    [constructed |-> FALSE, trade_file |-> FALSE, signal_file |-> FALSE,
     signal_rows |-> 0, calls |-> 0, op |-> "", trades |-> <<>>,
     start_equity |-> 0, summary |-> NoSummary]

\* get_trade_logger() has constructed the process-wide TradeLogger
SessionLedger ==
    [NoLedger EXCEPT !.constructed = TRUE, !.trade_file = TRUE, !.signal_file = TRUE]

\* a log directory that is empty or holds the trade file of an earlier session
InitLedger ==
    /\ ledger \in {NoLedger, [NoLedger EXCEPT !.trade_file = TRUE]}
    /\ trade_log \in {<<>>} \cup {<<LogTradeRecord(a)>> : a \in LogTradeCalls}
    /\ ~ledger.trade_file => trade_log = <<>>
    /\ trader = [asset_class |-> "stock", dry_run |-> TRUE,
                 max_order_notional |-> Nothing, starting_equity |-> 0]
    /\ open_orders = <<>>
    /\ net_position = 0
    /\ iteration = 0
    /\ pc = "idle"

\* the frame of a TradeLogger call: op is the method called
LedgerCall(op, l) ==
    /\ ledger.calls < MaxLedgerOps
    /\ ledger' = [l EXCEPT !.calls = ledger.calls + 1, !.op = op]
    /\ UNCHANGED <<trader, open_orders, net_position, iteration, pc, btVars, live, auxVars,
                   frame, results>>

\* TradeLogger(log_dir)
NewTradeLogger ==
    /\ trade_log' = InitCsv(ledger.trade_file, trade_log)
    /\ LedgerCall("__init__",
                  [ledger EXCEPT !.constructed = TRUE, !.trade_file = TRUE,
                                 !.signal_file = TRUE,
                                 !.signal_rows = IF ledger.signal_file THEN @ ELSE 0])
    /\ UNCHANGED cycle

\* log_trade(...)
LogTrade ==
    /\ ledger.constructed
    /\ \E a \in LogTradeCalls : trade_log' = Append(trade_log, LogTradeRecord(a))
    /\ LedgerCall("log_trade", [ledger EXCEPT !.trade_file = TRUE])
    /\ UNCHANGED cycle

\* log_skip(symbol, reason)
LogSkip ==
    /\ ledger.constructed
    /\ \E reason \in {"no signal from strategy"} :
          trade_log' = Append(trade_log, LogTradeRecord(LogSkipArgs(reason)))
    /\ LedgerCall("log_skip", [ledger EXCEPT !.trade_file = TRUE])
    /\ UNCHANGED cycle

\* log_signal(...)
LogSignal ==
    /\ ledger.constructed
    /\ LedgerCall("log_signal",
                  [ledger EXCEPT !.signal_file = TRUE, !.signal_rows = @ + 1])
    /\ UNCHANGED <<trade_log, cycle>>

\* get_trades(limit)
GetTradesCall ==
    /\ ledger.constructed
    /\ \E limit \in {Nothing, Some(0), Some(1)} :
          LedgerCall("get_trades",
                     [ledger EXCEPT !.trades = GetTrades(ledger.trade_file, trade_log, limit)])
    /\ UNCHANGED <<trade_log, cycle>>

\* get_session_summary(start_equity)
GetSessionSummaryCall ==
    /\ ledger.constructed
    /\ \E start_equity \in EquityValues :
          LedgerCall("get_session_summary",
                     [ledger EXCEPT !.start_equity = start_equity,
                                    !.summary =
                         GetSessionSummary(ledger.trade_file, trade_log, start_equity)])
    /\ UNCHANGED <<trade_log, cycle>>

NextLedger ==
    \/ NewTradeLogger \/ LogTrade \/ LogSkip \/ LogSignal
    \/ GetTradesCall \/ GetSessionSummaryCall

-----------------------------------------------------------------------------
(* AlpacaTrader.run and run_once *)

Traders ==
    [asset_class : {"stock", "crypto"}, dry_run : BOOLEAN,
     max_order_notional : {Nothing, Some(1), Some(5)},
     starting_equity : EquityValues]

NoCycle ==
    [outcome |-> "", reason |-> "", raised |-> "", decided |-> FALSE,
     side |-> "", order_type |-> "", price |-> 0, limit_price |-> Nothing,
     has_open |-> FALSE, lookup |-> 0, fetched |-> Nothing, adjusted |-> 0, qty |-> 0,
     submit_calls |-> 0, placed |-> 0, appended |-> 0,
     latest |-> FALSE, signal |-> 0]

\* no trader constructed
TraderIdle ==
    /\ trader = [asset_class |-> "stock", dry_run |-> TRUE,
                 max_order_notional |-> Nothing, starting_equity |-> 0]
    /\ open_orders = <<>>
    /\ net_position = 0
    /\ trade_log = <<>>
    /\ iteration = 0
    /\ pc = "idle"
    /\ cycle = NoCycle
    /\ ledger = NoLedger

\* AlpacaTrader(...) constructed on an account that may hold a position and
\* one open order of the instrument; run(MaxIterations) about to start
InitTrader ==
    /\ trader \in Traders
    /\ net_position \in {0 - 2 * QtyUnit, 0, 2 * QtyUnit}
    /\ trader.asset_class = "crypto" => net_position >= 0
    /\ open_orders \in {<<>>, <<[side |-> "buy", qty |-> QtyUnit]>>}
    /\ trade_log = <<>>
    /\ iteration = 0
    /\ pc = "running"
    /\ cycle = NoCycle
    /\ ledger = SessionLedger

\* run_once returns: the loop of run() goes on
Return(c, log, orders) ==
    /\ cycle' = [c EXCEPT !.appended = Len(log) - Len(trade_log),
                          !.placed = Len(orders) - Len(open_orders)]
    /\ trade_log' = log
    /\ open_orders' = orders
    /\ iteration' = iteration + 1
    /\ pc' = IF iteration + 1 < MaxIterations THEN "running" ELSE "done"
    /\ UNCHANGED <<trader, net_position, ledger, live, auxVars, frame, results>>

\* an exception leaves run_once and run()
Raise(c, call, orders) ==
    /\ cycle' = [c EXCEPT !.outcome = "raised", !.raised = call,
                          !.placed = Len(orders) - Len(open_orders)]
    /\ open_orders' = orders
    /\ iteration' = iteration + 1
    /\ pc' = "crashed"
    /\ UNCHANGED <<trader, net_position, trade_log, ledger, live, auxVars, frame, results>>

\* _skip_trade(reason); return df
SkipTrade(c, reason) ==
    Return([c EXCEPT !.outcome = "skip", !.reason = reason], trade_log, open_orders)

\* SubmitAndPrint that submits a second time after a rejection
SubmitAndPrint_Retry(c, d, qty) ==
    IF trader.dry_run
    THEN \E account \in AccountAnswers :
            IF ~IsSome(account)
            THEN Raise(c, "get_account", open_orders)
            ELSE Return([c EXCEPT !.outcome = "order"],
                        Append(trade_log,
                               TradeRecord(trader, d, qty, "dry_run", GetEquity(account))),
                        open_orders)
    ELSE \E first \in SubmitAnswers(trader, d, qty, net_position) :
         \E accepted \in (IF first THEN {TRUE} ELSE SubmitAnswers(trader, d, qty, net_position)) :
            LET calls == IF first THEN 1 ELSE 2
            IN  IF ~accepted
                THEN Return([c EXCEPT !.outcome = "rejected", !.reason = "order rejected",
                                      !.submit_calls = calls],
                            trade_log, open_orders)
                ELSE LET placed == Append(open_orders, [side |-> d.side, qty |-> qty])
                         c1 == [c EXCEPT !.submit_calls = calls]
                     IN  \E account \in AccountAnswers, id \in {"oid", ""} :
                            IF ~IsSome(account)
                            THEN Raise(c1, "get_account", placed)
                            ELSE Return([c1 EXCEPT !.outcome = "order"],
                                        Append(trade_log,
                                               TradeRecord(trader, d, qty,
                                                           IF id = "" THEN "unknown" ELSE id,
                                                           GetEquity(account))),
                                        placed)

\* _submit_order and _print_trade for the capped quantity
SubmitAndPrint(c, d, qty) ==
    IF trader.dry_run
    THEN \E account \in AccountAnswers :
            IF ~IsSome(account)
            THEN Raise(c, "get_account", open_orders)
            ELSE Return([c EXCEPT !.outcome = "order"],
                        Append(trade_log,
                               TradeRecord(trader, d, qty, "dry_run", GetEquity(account))),
                        open_orders)
    ELSE \E accepted \in SubmitAnswers(trader, d, qty, net_position) :
            IF ~accepted
            THEN Return([c EXCEPT !.outcome = "rejected", !.reason = "order rejected",
                                  !.submit_calls = 1],
                        trade_log, open_orders)
            ELSE LET placed == Append(open_orders, [side |-> d.side, qty |-> qty])
                     c1 == [c EXCEPT !.submit_calls = 1]
                 IN  \E account \in AccountAnswers, id \in {"oid", ""} :
                        IF ~IsSome(account)
                        THEN Raise(c1, "get_account", placed)
                        ELSE Return([c1 EXCEPT !.outcome = "order"],
                                    Append(trade_log,
                                           TradeRecord(trader, d, qty,
                                                       IF id = "" THEN "unknown" ELSE id,
                                                       GetEquity(account))),
                                    placed)

\* run_once from the position lookup on, for the broker's answer to it
AfterOpenOrderCheck(c, d, answer) ==
    IF GetNetPositionRaises(answer)
    THEN Raise([c EXCEPT !.lookup = answer.status], "get_position", open_orders)
    ELSE LET net == GetNetPosition(answer)
             c1 == [c EXCEPT !.lookup = answer.status, !.fetched = Some(net)]
             adj == AdjustQtyForPosition(trader, d, net)
             capped == CapQtyForNotional(trader, d, adj.qty)
             c2 == [c1 EXCEPT !.adjusted = adj.qty, !.qty = capped]
         IN  IF adj.qty <= 0 THEN SkipTrade(c1, adj.reason)
             ELSE IF capped <= 0
                  THEN SkipTrade(c2, "quantity too small after notional cap")
                  ELSE SubmitAndPrint(c2, d, capped)

\* the latest strategy row as _build_decision reads it: whether there is one,
\* and its signal (0 for a missing or NaN signal)
LatestSignal(f) ==
    [NoCycle EXCEPT !.latest = (f.kind = "row"),
                    !.signal = IF f.kind = "row" THEN ValueOr(f.row.signal, 0) ELSE 0]

\* run_once with the open-order guard removed
RunOnceBody_NoOpenOrderGuard(f) ==
    IF f.kind = "ValueError" THEN SkipTrade(NoCycle, "ValueError")
    ELSE LET d == BuildDecision(trader, f)
             seen == LatestSignal(f)
             c == [seen EXCEPT !.decided = TRUE, !.side = d.side,
                               !.order_type = d.order_type, !.price = d.price,
                               !.limit_price = d.limit_price]
         IN  IF ~d.ok THEN SkipTrade(seen, d.reason)
             ELSE \E listed \in {"APIError", "answer"} :
                    IF listed = "APIError" THEN Raise(c, "list_orders", open_orders)
                    ELSE \E answer \in PositionAnswers(net_position) :
                            AfterOpenOrderCheck(c, d, answer)

\* the body of run_once for the fetch result f
RunOnceBody(f) ==
    IF f.kind = "ValueError" THEN SkipTrade(NoCycle, "ValueError")
    ELSE LET d == BuildDecision(trader, f)
             seen == LatestSignal(f)
             c == [seen EXCEPT !.decided = TRUE, !.side = d.side,
                               !.order_type = d.order_type, !.price = d.price,
                               !.limit_price = d.limit_price]
         IN  IF ~d.ok THEN SkipTrade(seen, d.reason)
             ELSE \E listed \in {"APIError", "answer"} :
                    IF listed = "APIError" THEN Raise(c, "list_orders", open_orders)
                    ELSE IF Len(open_orders) > 0
                         THEN SkipTrade([c EXCEPT !.has_open = TRUE],
                                        "open order already exists")
                         ELSE \E answer \in PositionAnswers(net_position) :
                                AfterOpenOrderCheck(c, d, answer)

\* one iteration of run(): run_once
RunOnce ==
    /\ pc = "running"
    /\ \E f \in FetchResults : RunOnceBody(f)
    /\ UNCHANGED btVars

\* the broker fills an open order: it leaves the open orders and moves the
\* net position
BrokerFill ==
    /\ pc \in {"running", "done", "crashed"}
    /\ \E k \in 1..Len(open_orders) :
          LET o == open_orders[k]
          IN  /\ open_orders' = SubSeq(open_orders, 1, k - 1)
                                    \o SubSeq(open_orders, k + 1, Len(open_orders))
              /\ net_position' = IF o.side = "buy" THEN net_position + o.qty
                                 ELSE net_position - o.qty
    /\ UNCHANGED <<trader, trade_log, iteration, pc, cycle, ledger, live, auxVars,
                   frame, results>>
    /\ UNCHANGED btVars

NextTrader == RunOnce \/ BrokerFill

-----------------------------------------------------------------------------
(* The live pair loop (run_live_pair.py) *)

\* number of polling cycles of a live run that are followed
MaxCycles == 3

\* RSI_OVERBOUGHT, RSI_OVERSOLD and the exit level of the live loop
LiveParams == [RSI_OVERBOUGHT |-> 70, RSI_OVERSOLD |-> 30, RSI_EXIT |-> 50]

\* ratio RSI values on both sides of the three levels
LiveRsiValues == {25, 45, 55, 75}

\* what get_ratio_rsi delivers: an exception of a get_bars call, None (no RSI
\* row), NaN (the RSI of the latest bar is undefined) or a value
RatioRsiAnswers ==
    {[kind |-> k, value |-> 0] : k \in {"APIError", "None", "NaN"}}
        \cup {[kind |-> "value", value |-> v] : v \in LiveRsiValues}

\* LiveAction with a NaN that compares like a number below every level
LiveAction_NaNIsLow(pos, r) ==
    IF r.kind \notin {"value", "NaN"} THEN ""
    ELSE IF pos = None THEN (IF r.kind = "NaN" THEN LONG_SPY
                             ELSE IF r.value > LiveParams.RSI_OVERBOUGHT THEN SHORT_SPY
                             ELSE IF r.value < LiveParams.RSI_OVERSOLD THEN LONG_SPY ELSE "")
         ELSE IF \/ pos = SHORT_SPY /\ (r.kind = "NaN" \/ r.value < LiveParams.RSI_EXIT)
                 \/ pos = LONG_SPY /\ r.kind = "value" /\ r.value > LiveParams.RSI_EXIT
              THEN "exit" ELSE ""

\* the branch the "Trading logic" block takes: a side to enter, "exit" or ""
\* (every comparison with NaN is false)
LiveAction(pos, r) ==
    IF r.kind # "value" THEN ""
    ELSE IF pos = None
         THEN IF r.value > LiveParams.RSI_OVERBOUGHT THEN SHORT_SPY
              ELSE IF r.value < LiveParams.RSI_OVERSOLD THEN LONG_SPY ELSE ""
         ELSE IF \/ pos = SHORT_SPY /\ r.value < LiveParams.RSI_EXIT
                 \/ pos = LONG_SPY /\ r.value > LiveParams.RSI_EXIT
              THEN "exit" ELSE ""

\* the module before the loop starts
NoLive ==
    [pc |-> "idle", current_position |-> None, cycles |-> 0,
     ratio_rsi |-> [kind |-> "None", value |-> 0], action |-> "",
     legs |-> 0, outstanding |-> <<>>, closes |-> 0,
     interrupted_at |-> "", raised |-> "", flatten_attempts |-> 0]

\* "try: while True:" is entered with current_position = None
InitLive == live = [NoLive EXCEPT !.pc = "poll"]

\* a step of the live script; nothing else runs
LiveStep(l) ==
    /\ live' = l
    /\ UNCHANGED <<btVars, trVars, ledger, auxVars, frame, results>>

\* the top of the loop body: get_ratio_rsi() and the choice of the branch
GetRatioRsi ==
    /\ live.pc = "poll"
    /\ live.cycles < MaxCycles
    /\ \E r \in RatioRsiAnswers :
          LET a == LiveAction(live.current_position, r)
              l == [live EXCEPT !.cycles = @ + 1, !.ratio_rsi = r, !.legs = 0,
                                !.action = IF r.kind \in {"APIError", "None"} THEN "" ELSE a]
          IN  IF r.kind = "APIError"
              THEN LiveStep([l EXCEPT !.pc = "terminated", !.raised = "APIError"])
              ELSE IF r.kind = "None" THEN LiveStep([l EXCEPT !.pc = "sleep"])
              ELSE LiveStep([l EXCEPT !.pc = IF a \in {SHORT_SPY, LONG_SPY} THEN "enter"
                                            ELSE IF a = "exit" THEN "exit" ELSE "sleep"])

\* enter_trade up to and including the SPY order: an exception of a broker
\* call is caught and printed, a missing price returns
EnterFirstLeg ==
    /\ live.pc = "enter"
    /\ \E result \in {"Exception", "no price", "submitted"} :
          IF result = "submitted"
          THEN LiveStep([live EXCEPT !.pc = "enter_rsp", !.legs = 1,
                                     !.outstanding = Append(@, "SPY")])
          ELSE LiveStep([live EXCEPT !.pc = "sleep"])

\* enter_trade from the RSP order on
EnterSecondLeg ==
    /\ live.pc = "enter_rsp"
    /\ \E submitted \in BOOLEAN :
          IF submitted
          THEN LiveStep([live EXCEPT !.pc = "sleep", !.legs = 2,
                                     !.outstanding = Append(@, "RSP"),
                                     !.current_position = live.action])
          ELSE LiveStep([live EXCEPT !.pc = "sleep"])

\* "if should_exit: account_value = get_account_value()", outside any handler
\* for Exception
ExitAccountValue ==
    /\ live.pc = "exit"
    /\ \E answered \in BOOLEAN :
          IF answered THEN LiveStep([live EXCEPT !.pc = "exit_close"])
          ELSE LiveStep([live EXCEPT !.pc = "terminated", !.raised = "APIError"])

\* close_all_positions(): the broker call succeeds or its exception is printed
CloseAllPositions(l, closed) ==
    IF closed THEN [l EXCEPT !.current_position = None, !.outstanding = <<>>,
                             !.closes = @ + 1]
    ELSE [l EXCEPT !.closes = @ + 1]

\* the close_all_positions() of the exit branch
ExitClose ==
    /\ live.pc = "exit_close"
    /\ \E closed \in BOOLEAN :
          LiveStep([CloseAllPositions(live, closed) EXCEPT !.pc = "sleep"])

\* time.sleep(300) returns
Sleep ==
    /\ live.pc = "sleep"
    /\ LiveStep([live EXCEPT !.pc = "poll"])

\* the positions of the loop at which a KeyboardInterrupt can be raised
LoopPcs == {"poll", "enter", "enter_rsp", "exit", "exit_close", "sleep"}

\* SIGINT: KeyboardInterrupt is raised wherever the loop is; it is no
\* Exception, so only "except KeyboardInterrupt" catches it
KeyboardInterrupt ==
    /\ live.pc \in LoopPcs
    /\ LiveStep([live EXCEPT !.pc = "shutdown", !.interrupted_at = live.pc])

\* the handler: close_all_positions(), then the script ends
ShutdownClose ==
    /\ live.pc = "shutdown"
    /\ \E closed \in BOOLEAN :
          LiveStep([CloseAllPositions(live, closed) EXCEPT
                        !.pc = "terminated", !.flatten_attempts = @ + 1])

NextLive ==
    \/ GetRatioRsi \/ EnterFirstLeg \/ EnterSecondLeg \/ ExitAccountValue
    \/ ExitClose \/ Sleep \/ KeyboardInterrupt \/ ShutdownClose

\* one whole iteration of the loop for the ratio RSI r, every broker call
\* answering
LiveCycle(l, r) ==
    LET a == LiveAction(l.current_position, r)
    IN  [l EXCEPT !.cycles = @ + 1, !.ratio_rsi = r, !.action = a,
                  !.legs = IF a \in {SHORT_SPY, LONG_SPY} THEN 2 ELSE 0,
                  !.outstanding = IF a \in {SHORT_SPY, LONG_SPY} THEN <<"SPY", "RSP">>
                                  ELSE IF a = "exit" THEN <<>> ELSE @,
                  !.closes = IF a = "exit" THEN @ + 1 ELSE @,
                  !.current_position = IF a \in {SHORT_SPY, LONG_SPY} THEN a
                                       ELSE IF a = "exit" THEN None ELSE @]

\* the scalp parameters with the RSI thresholds of the live loop
LiveScalp ==
    [ScalpPreset EXCEPT !.RSI_OVERBOUGHT = LiveParams.RSI_OVERBOUGHT,
                        !.RSI_OVERSOLD = LiveParams.RSI_OVERSOLD]

\* the scalp backtest and the live loop observe the same bar: the backtest
\* processes it and the live loop runs one iteration on its ratio RSI
ReplayBar ==
    \E sp \in SpyPrices(cfg), rp \in RspPrices(cfg), rsi \in LiveRsiValues :
        /\ BarStep(sp, rp, rsi, 0)
        /\ live' = LiveCycle(live, [kind |-> "value", value |-> rsi])
        /\ UNCHANGED <<frame, results>>

-----------------------------------------------------------------------------
(* calculate_rsi (backtest_scalp.py, run_live_pair.py) *)

\* length of the price series
MaxSeries == 4

\* the largest RSI period
MaxPeriod == 3

Periods == 2..MaxPeriod

SeriesPrices == {1, 2, 3}

\* delta.where(delta > 0, 0) at row i: the delta of the first row is NaN,
\* fails the test and is replaced by 0
Gain(prices, i) ==
    IF i = 1 THEN 0
    ELSE IF prices[i] - prices[i - 1] > 0 THEN prices[i] - prices[i - 1] ELSE 0

\* -delta.where(delta < 0, 0) at row i
Loss(prices, i) ==
    IF i = 1 THEN 0
    ELSE IF prices[i] - prices[i - 1] < 0 THEN prices[i - 1] - prices[i] ELSE 0

\* the sum of the rolling window of `period` rows that ends at row i
RECURSIVE RollingGain(_, _, _)
RollingGain(prices, i, period) ==
    IF period = 0 THEN 0 ELSE Gain(prices, i) + RollingGain(prices, i - 1, period - 1)

RECURSIVE RollingLoss(_, _, _)
RollingLoss(prices, i, period) ==
    IF period = 0 THEN 0 ELSE Loss(prices, i) + RollingLoss(prices, i - 1, period - 1)

\* row i of calculate_rsi(prices, period): rolling(window=period).mean() is
\* NaN until the window holds `period` rows; rs = gain / loss is inf for
\* loss = 0 < gain (rsi = 100 - 100/inf = 100) and NaN for gain = loss = 0;
\* otherwise 100 - 100 / (1 + gain/loss) = 100 * gain / (gain + loss)
RsiAt(prices, i, period) ==
    IF i < period THEN NaN
    ELSE LET gain == RollingGain(prices, i, period)
             loss == RollingLoss(prices, i, period)
         IN  IF loss = 0 THEN (IF gain = 0 THEN NaN ELSE Ratio(100, 1))
             ELSE Ratio(100 * gain, gain + loss)

\* calculate_rsi(prices, period)
CalculateRsi(prices, period) ==
    [i \in 1..Len(prices) |-> RsiAt(prices, i, period)]

NoSeries == [prices |-> <<>>, period |-> MaxPeriod, rsi |-> <<>>]

\* the RSI column of a series of one bar
InitSeries ==
    \E p \in SeriesPrices, k \in Periods :
        series = [prices |-> <<p>>, period |-> k, rsi |-> CalculateRsi(<<p>>, k)]

\* calculate_rsi on the series with one more bar
CalculateRsiCall ==
    /\ Len(series.prices) < MaxSeries
    /\ \E p \in SeriesPrices :
          LET prices == Append(series.prices, p)
          IN  series' = [series EXCEPT !.prices = prices,
                                       !.rsi = CalculateRsi(prices, series.period)]
    /\ UNCHANGED <<btVars, trVars, ledger, live, portfolio64, construction, frame, results>>

NextSeries == CalculateRsiCall

-----------------------------------------------------------------------------
(* The cash arithmetic of the bar loop in binary64 *)

\* A binary64 value v >= 0 that is a multiple of 2^-45 is the tuple
\* <<i, a, b, c>> with v = i + a/2^15 + b/2^30 + c/2^45 and a, b, c in
\* 0..2^15-1.  Every price of 128 or more, every whole number of shares and
\* every sum, difference and product of them is such a multiple, so that the
\* exact result of an operation is a tuple and the float result is the tuple
\* it rounds to.

\* number of entries (each followed by its exit) of a replay
MaxTrips == 2

\* 2^15
Limb == 32768

\* the tuple of i + a/2^15 + b/2^30 + c/2^45 for any integers a, b, c
Norm(i, a, b, c) ==
    LET kb == b + (c \div Limb)
        ka == a + (kb \div Limb)
    IN  <<i + (ka \div Limb), ka % Limb, kb % Limb, c % Limb>>

FxAdd(x, y) == Norm(x[1] + y[1], x[2] + y[2], x[3] + y[3], x[4] + y[4])

FxSub(x, y) == Norm(x[1] - y[1], x[2] - y[2], x[3] - y[3], x[4] - y[4])

FxMulInt(n, x) == Norm(n * x[1], n * x[2], n * x[3], n * x[4])

FxLE(x, y) ==
    \/ x[1] < y[1]
    \/ x[1] = y[1] /\ x[2] < y[2]
    \/ x[1] = y[1] /\ x[2] = y[2] /\ x[3] < y[3]
    \/ x[1] = y[1] /\ x[2] = y[2] /\ x[3] = y[3] /\ x[4] <= y[4]

RECURSIVE Exponent(_)
Exponent(i) == IF i < 2 THEN 0 ELSE 1 + Exponent(i \div 2)

RECURSIVE Pow2(_)
Pow2(n) == IF n = 0 THEN 1 ELSE 2 * Pow2(n - 1)

\* the binary64 nearest to the exact value x, ties to even: a value of
\* 2^k..2^(k+1) keeps 52 - k fraction bits, so k - 7 bits of the tuple go;
\* below 128 the tuple has at most 52 bits and is a binary64 as it is
Round64(x) ==
    IF x[1] < 128 THEN x
    ELSE LET step == Pow2(Exponent(x[1]) - 7)
             low == x[3] * Limb + x[4]
             q == low \div step
             r == low % step
             up == 2 * r > step \/ (2 * r = step /\ q % 2 = 1)
         IN  Norm(x[1], x[2], 0, (IF up THEN q + 1 ELSE q) * step)

Zero64 == <<0, 0, 0, 0>>

\* the float cash + shares * price, for a whole number of shares of either sign
AddLeg64(cash, shares, price) ==
    IF shares >= 0 THEN Round64(FxAdd(cash, Round64(FxMulInt(shares, price))))
    ELSE Round64(FxSub(cash, Round64(FxMulInt(0 - shares, price))))

\* portfolio['cash'] + spy_shares * spy_price + rsp_shares * rsp_price
PortfolioValue64(p, sp, rp) ==
    AddLeg64(AddLeg64(p.cash, p.spy_shares, sp), p.rsp_shares, rp)

\* position_size // price for position_size = portfolio_value *
\* CAPITAL_USAGE / 2: the whole number n with n * price <= position_size <
\* (n + 1) * price (the rounding of position_size is short of moving n by
\* many orders of magnitude on the prices used here)
LegQty64(c, pv, price) ==
    LET g == GCD(c.CAPITAL_USAGE, 200)
        size == FxMulInt(c.CAPITAL_USAGE \div g, pv)
        Fits(n) == FxLE(FxMulInt((200 \div g) * n, price), size)
    IN  CHOOSE n \in 0..((c.CAPITAL_USAGE * (pv[1] + 1)) \div (200 * price[1])) + 1 :
            Fits(n) /\ ~Fits(n + 1)

\* ClosePosition64 that leaves the cash of the RSP leg out
ClosePosition64_SpyOnly(p, sp, rp) ==
    [cash |-> AddLeg64(p.cash, p.spy_shares, sp),
     spy_shares |-> 0, rsp_shares |-> 0, entry_value |-> Zero64]

\* "Close position": two float additions to the cash
ClosePosition64(p, sp, rp) ==
    [cash |-> AddLeg64(AddLeg64(p.cash, p.spy_shares, sp), p.rsp_shares, rp),
     spy_shares |-> 0, rsp_shares |-> 0, entry_value |-> Zero64]

\* EnterPosition64 without the cash credit of the short sale
EnterPosition64_NoCredit(c, p, s, pv, sp, rp) ==
    LET spy_shares == IF s = SHORT_SPY THEN 0 - LegQty64(c, pv, sp) ELSE LegQty64(c, pv, sp)
        rsp_shares == IF s = SHORT_SPY THEN LegQty64(c, pv, rp) ELSE 0 - LegQty64(c, pv, rp)
    IN  [cash |-> IF s = SHORT_SPY
                  THEN AddLeg64(p.cash, 0 - rsp_shares, rp)
                  ELSE AddLeg64(p.cash, 0 - spy_shares, sp),
         spy_shares |-> spy_shares, rsp_shares |-> rsp_shares,
         entry_value |-> pv]

\* the entry branch for side s: the long leg is paid first, then the short
\* sale is credited
EnterPosition64(c, p, s, pv, sp, rp) ==
    LET spy_shares == IF s = SHORT_SPY THEN 0 - LegQty64(c, pv, sp) ELSE LegQty64(c, pv, sp)
        rsp_shares == IF s = SHORT_SPY THEN LegQty64(c, pv, rp) ELSE 0 - LegQty64(c, pv, rp)
    IN  [cash |-> IF s = SHORT_SPY
                  THEN AddLeg64(AddLeg64(p.cash, 0 - rsp_shares, rp), 0 - spy_shares, sp)
                  ELSE AddLeg64(AddLeg64(p.cash, 0 - spy_shares, sp), 0 - rsp_shares, rp),
         spy_shares |-> spy_shares, rsp_shares |-> rsp_shares,
         entry_value |-> pv]

\* portfolio['cash'] at the start
Cash64 == <<StartCash, 0, 0, 0>>

\* SPY closes: 482.23 and 485.11 as binary64
SpyQuotes64 == {<<482, 7536, 20971, 17040>>, <<485, 3604, 15728, 20972>>}

\* RSP closes: 176.72 and 177.5 as binary64
RspQuotes64 == {<<176, 23592, 31457, 9175>>, <<177, 16384, 0, 0>>}

\* no replay in binary64
NoPortfolio64 ==
    [book |-> [cash |-> Zero64, spy_shares |-> 0, rsp_shares |-> 0, entry_value |-> Zero64],
     position |-> None, spy_price |-> Zero64, rsp_price |-> Zero64,
     entry_spy_price |-> Zero64, entry_rsp_price |-> Zero64,
     portfolio_value |-> Zero64, cash_before |-> Zero64, op |-> "", trips |-> 0]

\* the portfolio dict before the first bar
InitPortfolio64 ==
    portfolio64 = [NoPortfolio64 EXCEPT !.book.cash = Cash64, !.portfolio_value = Cash64,
                                        !.cash_before = Cash64]

\* a bar at which the loop is flat and takes the entry branch for side s
Enter64 ==
    /\ portfolio64.position = None
    /\ portfolio64.trips < MaxTrips
    /\ \E s \in {SHORT_SPY, LONG_SPY}, sp \in SpyQuotes64, rp \in RspQuotes64 :
          LET pv == PortfolioValue64(portfolio64.book, sp, rp)
          IN  portfolio64' =
                  [portfolio64 EXCEPT
                      !.book = EnterPosition64(cfg, portfolio64.book, s, pv, sp, rp),
                      !.position = s, !.spy_price = sp, !.rsp_price = rp,
                      !.entry_spy_price = sp, !.entry_rsp_price = rp,
                      !.portfolio_value = pv, !.cash_before = portfolio64.book.cash,
                      !.op = "enter"]
    /\ UNCHANGED <<btVars, trVars, ledger, live, series, construction, frame, results>>

\* a later bar at which the loop takes the exit block
Close64 ==
    /\ portfolio64.position # None
    /\ \E sp \in SpyQuotes64, rp \in RspQuotes64 :
          portfolio64' =
              [portfolio64 EXCEPT
                  !.book = ClosePosition64(portfolio64.book, sp, rp),
                  !.position = None, !.spy_price = sp, !.rsp_price = rp,
                  !.portfolio_value = PortfolioValue64(portfolio64.book, sp, rp),
                  !.op = "close", !.trips = @ + 1]
    /\ UNCHANGED <<btVars, trVars, ledger, live, series, construction, frame, results>>

NextCash64 == Enter64 \/ Close64

-----------------------------------------------------------------------------
(* The indicator frame of the swing backtest (backtest_swing.py) *)

\* rows of the rolling window of the z-score (the source rolls over 60 rows)
ZWindow == 3

\* the swing parameters with z-score levels a window of ZWindow rows reaches
FrameSwing == [SwingPreset EXCEPT !.ZSCORE_HIGH = 10, !.ZSCORE_LOW = -10]

\* spy_df['ratio'] = spy_df['Close'] / rsp_df['Close'], in units of 1/54
\* (a whole number for every pair of prices of the grids)
PriceRatio(sp, rp) == (sp * 54) \div rp

RECURSIVE SumSeq(_)
SumSeq(xs) == IF xs = <<>> THEN 0 ELSE Head(xs) + SumSeq(Tail(xs))

\* the last ZWindow ratios once the row with ratio x is read
RollingWindow(ratios, x) ==
    IF Len(ratios) < ZWindow THEN Append(ratios, x) ELSE Append(Tail(ratios), x)

\* spy_df['ratio_zscore'] at the last row of the window, as the pair d, q with
\*   ratio - ratio_mean60 = d / n   and   ratio_std60 ^ 2 = q / (n * n * (n - 1)),
\* n the number of rows: rolling(60) is NaN until the window is full, and on a
\* flat window the quotient is 0 / 0 = NaN
ZScore(window) ==
    LET n == Len(window)
        s == SumSeq(window)
        d == n * window[n] - s
        q == SumSeq([i \in 1..n |-> (n * window[i] - s) * (n * window[i] - s)])
    IN  [defined |-> n = ZWindow /\ ~(q = 0 /\ d = 0),
         flat |-> n = ZWindow /\ q = 0,
         n |-> n, d |-> d, q |-> q]

\* the sign of ratio_zscore - t/10: ratio_zscore = d * sqrt(n - 1) / sqrt(q),
\* and x -> sign(x) * x * x is increasing
ZSign(z, t) ==
    LET lhs == (IF z.d < 0 THEN -1 ELSE 1) * (100 * z.d * z.d * (z.n - 1))
        rhs == (IF t < 0 THEN -1 ELSE 1) * (t * t * z.q)
    IN  IF lhs > rhs THEN 1 ELSE IF lhs < rhs THEN -1 ELSE 0

\* ratio_zscore in tenths, moved to a whole number of tenths on the same side
\* of every level the loop compares it with (ZSCORE_LOW, -0.5, 0.5,
\* ZSCORE_HIGH), and a level itself if it equals one
ZTenths(c, z) ==
    LET levels == {c.ZSCORE_LOW, -5, 5, c.ZSCORE_HIGH}
        below == {t \in levels : ZSign(z, t) > 0}
    IN  IF \E t \in levels : ZSign(z, t) = 0
        THEN CHOOSE t \in levels : ZSign(z, t) = 0
        ELSE IF below = {}
             THEN (CHOOSE t \in levels : \A u \in levels : t <= u) - 1
             ELSE (CHOOSE t \in below : \A u \in below : u <= t) + 1

\* Dropna that keeps every row
Dropna_KeepAll(z) == TRUE

\* spy_df.dropna(): is the row kept? (its other columns are defined)
Dropna(z) == z.defined

NoFrame ==
    [rows |-> 0, ratio |-> <<>>,
     zscore |-> [defined |-> FALSE, flat |-> FALSE, n |-> 0, d |-> 0, q |-> 0],
     kept |-> FALSE]

\* a row of the frame that dropna keeps: the bar loop runs on it
KeptRow ==
    \E sp \in SpyPrices(cfg), rp \in {100}, rsi \in {30, 50, 70} :
        LET window == RollingWindow(frame.ratio, PriceRatio(sp, rp))
            z == ZScore(window)
        IN  /\ frame.rows < ZWindow + MaxBars
            /\ Dropna(z)
            /\ BarStep(sp, rp, rsi, ZTenths(cfg, z))
            /\ frame' = [rows |-> frame.rows + 1, ratio |-> window, zscore |-> z,
                         kept |-> TRUE]
            /\ UNCHANGED <<live, results>>

\* a row of the frame that dropna removes: the bar loop never sees it
DroppedRow ==
    \E sp \in SpyPrices(cfg), rp \in {100} :
        LET window == RollingWindow(frame.ratio, PriceRatio(sp, rp))
            z == ZScore(window)
        IN  /\ frame.rows < ZWindow + MaxBars
            /\ ~Dropna(z)
            /\ frame' = [rows |-> frame.rows + 1, ratio |-> window, zscore |-> z,
                         kept |-> FALSE]
            /\ UNCHANGED <<btVars, trVars, ledger, auxVars, live, results>>

NextFrame == KeptRow \/ DroppedRow

-----------------------------------------------------------------------------
(* AlpacaTrader.__init__ and normalize_crypto_symbols *)

\* A symbol is the sequence of its characters.

\* CRYPTO_QUOTE_SUFFIXES = ("USDT", "USDC", "USD")
CRYPTO_QUOTE_SUFFIXES ==
    << <<"U", "S", "D", "T">>, <<"U", "S", "D", "C">>, <<"U", "S", "D">> >>

\* the symbol arguments: SPY, BTC/USD, btc_usd, BTCUSD with a leading blank,
\* BTC, BTC/, /USD, USD and the empty string
SymbolArgs ==
    { <<"S", "P", "Y">>,
      <<"B", "T", "C", "/", "U", "S", "D">>,
      <<"b", "t", "c", "_", "u", "s", "d">>,
      <<" ", "B", "T", "C", "U", "S", "D">>,
      <<"B", "T", "C">>,
      <<"B", "T", "C", "/">>,
      <<"/", "U", "S", "D">>,
      <<"U", "S", "D">>,
      <<>> }

\* str.upper()
Upper(sym) ==
    LET UpperChar(ch) ==
            CASE ch = "b" -> "B" [] ch = "t" -> "T" [] ch = "c" -> "C"
              [] ch = "u" -> "U" [] ch = "s" -> "S" [] ch = "d" -> "D"
              [] OTHER -> ch
    IN  [i \in 1..Len(sym) |-> UpperChar(sym[i])]

\* asset_class.lower()
LowerClass(a) == IF a = "Crypto" THEN "crypto" ELSE a

\* str.strip(): the blanks at both ends are dropped
RECURSIVE Strip(_)
Strip(sym) ==
    IF sym # <<>> /\ Head(sym) = " " THEN Strip(Tail(sym))
    ELSE IF sym # <<>> /\ sym[Len(sym)] = " " THEN Strip(SubSeq(sym, 1, Len(sym) - 1))
    ELSE sym

\* sym.replace("-", "/").replace("_", "/")
ReplaceSeparators(sym) ==
    [i \in 1..Len(sym) |-> IF sym[i] \in {"-", "_"} THEN "/" ELSE sym[i]]

HasSlash(sym) == \E i \in 1..Len(sym) : sym[i] = "/"

\* sym.split("/", 1) of a symbol with a "/"
SplitAtSlash(sym) ==
    LET k == CHOOSE i \in 1..Len(sym) :
                 sym[i] = "/" /\ \A j \in 1..(i - 1) : sym[j] # "/"
    IN  <<SubSeq(sym, 1, k - 1), SubSeq(sym, k + 1, Len(sym))>>

\* sym.endswith(quote)
EndsWith(sym, quote) ==
    /\ Len(sym) >= Len(quote)
    /\ SubSeq(sym, Len(sym) - Len(quote) + 1, Len(sym)) = quote

\* the loop over CRYPTO_QUOTE_SUFFIXES from suffix number k on
RECURSIVE SplitBySuffix(_, _)
SplitBySuffix(sym, k) ==
    IF k > Len(CRYPTO_QUOTE_SUFFIXES) THEN <<sym, sym>>
    ELSE LET quote == CRYPTO_QUOTE_SUFFIXES[k]
             base == SubSeq(sym, 1, Len(sym) - Len(quote))
         IN  IF EndsWith(sym, quote) /\ Len(sym) > Len(quote)
             THEN <<base \o quote, base \o <<"/">> \o quote>>
             ELSE SplitBySuffix(sym, k + 1)

\* normalize_crypto_symbols(symbol): the pair trade_symbol, data_symbol
NormalizeCryptoSymbols(symbol) ==
    LET stripped == Upper(Strip(symbol))
        sym == ReplaceSeparators(stripped)
    IN  IF stripped = <<>> THEN <<stripped, stripped>>
        ELSE IF HasSlash(sym)
             THEN LET base == SplitAtSlash(sym)[1]
                      quote == SplitAtSlash(sym)[2]
                  IN  IF base = <<>> \/ quote = <<>> THEN <<sym, sym>>
                      ELSE <<base \o quote, base \o <<"/">> \o quote>>
             ELSE SplitBySuffix(sym, 1)

NoConstruction ==
    [called |-> FALSE, asset_class |-> "", symbol_arg |-> <<>>, lookback |-> 0,
     max_order_notional |-> Nothing, raised |-> "", broker_calls |-> 0,
     constructed |-> FALSE, symbol |-> <<>>, data_symbol |-> <<>>,
     starting_equity |-> 0]

\* AlpacaTrader(symbol, asset_class, timeframe, lookback, strategy,
\* max_order_notional=..., api=...) with the environment variables unset;
\* account is what api.get_account() delivers to _get_equity
NewAlpacaTrader(asset_class, symbol, lookback, max_order_notional, account) ==
    LET cls == LowerClass(asset_class)
        args == [NoConstruction EXCEPT !.called = TRUE, !.asset_class = asset_class,
                                       !.symbol_arg = symbol, !.lookback = lookback,
                                       !.max_order_notional = max_order_notional]
        pair == IF cls = "crypto" THEN NormalizeCryptoSymbols(symbol)
                ELSE <<Upper(symbol), Upper(symbol)>>
        named == [args EXCEPT !.symbol = pair[1], !.data_symbol = pair[2]]
    IN  IF cls \notin {"stock", "crypto"} THEN [args EXCEPT !.raised = "ValueError"]
        ELSE IF cls = "crypto" /\ ~HasSlash(pair[2])
             THEN [args EXCEPT !.raised = "ValueError"]
             ELSE IF account = Nothing
                  THEN [named EXCEPT !.raised = "APIError", !.broker_calls = 1]
                  ELSE [named EXCEPT !.constructed = TRUE, !.broker_calls = 1,
                                     !.starting_equity = GetEquity(account)]

\* a construction of a trader, for asset classes, lookbacks and notional
\* caps that are valid and that are not
Construct ==
    /\ \E asset_class \in {"stock", "crypto", "Crypto", "forex"}, symbol \in SymbolArgs,
          lookback \in {-1, 0, 50},
          max_order_notional \in {Nothing, Some(-5), Some(0), Some(100)},
          account \in AccountAnswers :
          construction' =
              NewAlpacaTrader(asset_class, symbol, lookback, max_order_notional, account)
    /\ UNCHANGED <<btVars, trVars, ledger, live, series, portfolio64, frame, results>>

-----------------------------------------------------------------------------
(* The results section of the backtests *)

\* portfolio['trades'] holds one line per exit and per entry; a line is
\* kept as the words the results section looks for in it: "ENTER" for an
\* entry line, the exit reason for an exit line.

NoResults ==
    [pc |-> "idle", trades |-> <<>>, equity |-> <<>>, printed |-> FALSE, raised |-> "",
     final_value |-> 0, total_pnl |-> 0, entry_trades |-> 0, exits |-> <<>>]

\* the lines of portfolio['trades'] and the last element of
\* portfolio['equity'] after the bar b
AppendTrades(r, b) ==
    LET exited == IF b.exit_reason # "" THEN Append(r.trades, b.exit_reason) ELSE r.trades
        entered == IF b.entered # "" THEN Append(exited, "ENTER") ELSE exited
    IN  [r EXCEPT !.trades = entered, !.equity = <<b.portfolio_value>>]

\* len([t for t in portfolio['trades'] if word in t])
RECURSIVE CountTrades(_, _)
CountTrades(trades, word) ==
    IF trades = <<>> THEN 0
    ELSE (IF Head(trades) = word THEN 1 ELSE 0) + CountTrades(Tail(trades), word)

\* the results section: final_value = portfolio['equity'][-1], the counts,
\* and the printed lines; the scalp script divides every count by
\* entry_trades, the swing script does so under "if entry_trades > 0"
PrintResults(c, r) ==
    LET entry_trades == CountTrades(r.trades, "ENTER")
        words == <<"PROFIT TARGET", "STOP LOSS", TimeLimit(c), Reversion(c)>>
        counted == [r EXCEPT !.final_value = r.equity[1],
                             !.total_pnl = r.equity[1] - StartCash,
                             !.entry_trades = entry_trades,
                             !.exits = [k \in 1..4 |-> CountTrades(r.trades, words[k])]]
    IN  IF r.equity = <<>> THEN [r EXCEPT !.pc = "crashed", !.raised = "IndexError"]
        ELSE IF c.variant = "scalp" /\ entry_trades = 0
             THEN [counted EXCEPT !.pc = "crashed", !.raised = "ZeroDivisionError"]
             ELSE [counted EXCEPT !.pc = "done", !.printed = TRUE]

\* an iteration of the bar loop, with the lines it appends
ResultBar ==
    /\ results.pc = "loop"
    /\ \E sp \in SpyPrices(cfg), rp \in RspPrices(cfg), rsi \in RsiValues, z \in ZValues(cfg) :
          BarStep(sp, rp, rsi, z)
    /\ results' = AppendTrades(results, bar')
    /\ UNCHANGED <<live, frame>>

\* the loop has run over the whole index: the results section
Results ==
    /\ results.pc = "loop"
    /\ results' = PrintResults(cfg, results)
    /\ UNCHANGED <<btVars, trVars, ledger, live, auxVars, frame>>

NextResults == ResultBar \/ Results

-----------------------------------------------------------------------------
(* Specifications *)

\* no indicator frame, no construction and no results section
Rest == frame = NoFrame /\ construction = NoConstruction /\ results = NoResults

\* no live loop, no indicator series and no binary64 replay
Quiet == live = NoLive /\ series = NoSeries /\ portfolio64 = NoPortfolio64 /\ Rest

\* backtest runs over the presets and the retuned parameter sets
InitConfigs == InitBacktest(Configs) /\ TraderIdle /\ Quiet

\* backtest runs with the published presets
InitPresets == InitBacktest(Presets) /\ TraderIdle /\ Quiet

\* a trader session (no backtest running)
InitSession == InitBacktest({ScalpPreset}) /\ InitTrader /\ Quiet

\* the backtests over the presets and the retuned parameter sets
SpecBacktest == InitConfigs /\ [][NextBacktest]_vars

\* the backtests with the published presets only
SpecPresets == InitPresets /\ [][NextBacktest]_vars

\* the backtests with the published presets on data with gaps
SpecGaps == InitPresets /\ [][NextGaps]_vars

\* the swing backtest with a short hold on data with gaps
InitQuickSwing == InitBacktest({QuickSwing}) /\ TraderIdle /\ Quiet

SpecSwingGaps == InitQuickSwing /\ [][NextSwingGaps]_vars

\* a session of AlpacaTrader.run against an asynchronously filling broker
SpecTrader == InitSession /\ [][NextTrader]_vars

\* calls of a TradeLogger on a log directory (no backtest, no trader running)
InitLogDir == InitBacktest({ScalpPreset}) /\ InitLedger /\ cycle = NoCycle /\ Quiet

\* any sequence of TradeLogger constructions and calls
SpecLedger == InitLogDir /\ [][NextLedger]_vars

\* a run of the live script (no backtest, no trader)
InitLiveRun ==
    /\ InitBacktest({ScalpPreset}) /\ TraderIdle /\ InitLive
    /\ series = NoSeries /\ portfolio64 = NoPortfolio64 /\ Rest

SpecLive == InitLiveRun /\ [][NextLive]_vars

\* the scalp backtest and the live loop on the same bars and thresholds
InitReplay ==
    /\ InitBacktest({LiveScalp}) /\ TraderIdle /\ InitLive
    /\ series = NoSeries /\ portfolio64 = NoPortfolio64 /\ Rest

SpecReplay == InitReplay /\ [][ReplayBar]_vars

\* calculate_rsi on growing price series
InitIndicator ==
    /\ InitBacktest({ScalpPreset}) /\ TraderIdle /\ InitSeries
    /\ live = NoLive /\ portfolio64 = NoPortfolio64 /\ Rest

SpecRsi == InitIndicator /\ [][NextSeries]_vars

\* entries and exits of the scalp loop in binary64
InitCash64 ==
    /\ InitBacktest({ScalpPreset}) /\ TraderIdle /\ InitPortfolio64
    /\ live = NoLive /\ series = NoSeries /\ Rest

SpecCash64 == InitCash64 /\ [][NextCash64]_vars

\* the swing backtest on the rows of its indicator frame
InitFrame ==
    /\ InitBacktest({FrameSwing}) /\ TraderIdle
    /\ live = NoLive /\ series = NoSeries /\ portfolio64 = NoPortfolio64
    /\ Rest

SpecFrame == InitFrame /\ [][NextFrame]_vars

\* constructions of AlpacaTrader (no backtest, no session running)
InitConstruct == InitBacktest({ScalpPreset}) /\ TraderIdle /\ Quiet

SpecConstruct == InitConstruct /\ [][Construct]_vars

\* a whole run of either backtest script: the bar loop, then the results
InitRun ==
    /\ InitBacktest(Presets) /\ TraderIdle
    /\ results = [NoResults EXCEPT !.pc = "loop"]
    /\ live = NoLive /\ series = NoSeries /\ portfolio64 = NoPortfolio64
    /\ frame = NoFrame /\ construction = NoConstruction

SpecRun == InitRun /\ [][NextResults]_vars

-----------------------------------------------------------------------------
(* Properties of the bar loop *)

\* the entry_value the exit block of the last bar divided by
EntryValueAtBar == bar.portfolio_value - bar.position_pnl

ProfitHit == PnlPctGE(bar.position_pnl, EntryValueAtBar, cfg.PROFIT_TARGET)
StopHit == PnlPctLE(bar.position_pnl, EntryValueAtBar, 0 - cfg.STOP_LOSS)
HoldHit == bar.days_held >= cfg.MAX_HOLD
ReversionHit ==
    MeanReversion(cfg, bar.position_at_open, bar.days_held, bar.ratio_rsi, bar.ratio_zscore)

Exited == bar.exit_reason # ""
Entered == bar.entered # ""

C2_NoReentrySameBar ==
    Exited => (~Entered /\ current_position = None)

\* C4: FLAT implies spy_shares = 0, rsp_shares = 0 and entry_value = 0, and a
\* position is opened only when none is open (never a second one).
C4_FlatIsEmpty ==
    /\ current_position = None =>
          (portfolio.spy_shares = 0 /\ portfolio.rsp_shares = 0 /\ portfolio.entry_value = 0)
    /\ current_position \in {None, SHORT_SPY, LONG_SPY}
    /\ Entered => (bar.position_at_open = None \/ Exited)

\* FLAT again after a position was closed
C4_Witness ==
    Exited /\ ~Entered /\ current_position = None

\* C5: at a bar with an entry or an exit, the equity recomputed after the
\* transition at that bar's prices equals the portfolio_value of the bar.
C5_EquityContinuous ==
    (Entered \/ Exited) =>
        portfolio.cash + portfolio.spy_shares * bar.spy_price
            + portfolio.rsp_shares * bar.rsp_price = bar.portfolio_value

\* an exit at prices that differ from the entry prices, and an entry
C5_Witness ==
    \/ Exited /\ ~Entered /\ bar.position_pnl # 0
    \/ Entered /\ Exited /\ bar.position_pnl # 0

\* |qty| = floor(position_size / price), position_size = portfolio_value * usage / 2
IsFloorOfSize(qty, price) ==
    /\ Abs(qty) * price * 200 <= bar.portfolio_value * cfg.CAPITAL_USAGE
    /\ (Abs(qty) + 1) * price * 200 > bar.portfolio_value * cfg.CAPITAL_USAGE

\* C8: at every entry each leg's absolute quantity is
\* floor(position_size / leg_price), so its notional does not exceed
\* position_size; equity 100000, usage 0.90, prices 500 and 100, RSI above
\* overbought gives spy_shares = -90, rsp_shares = 450, cash unchanged.
C8_LegSizing ==
    Entered =>
        /\ IsFloorOfSize(portfolio.spy_shares, bar.spy_price)
        /\ IsFloorOfSize(portfolio.rsp_shares, bar.rsp_price)
        /\ (/\ cfg = ScalpPreset /\ bar.entered = SHORT_SPY
             /\ bar.portfolio_value = 100000 /\ bar.spy_price = 500 /\ bar.rsp_price = 100)
            => (/\ portfolio.spy_shares = -90 /\ portfolio.rsp_shares = 450
                /\ portfolio.cash = 100000)

\* a position was open when the last bar began
OpenAtBar == bar.position_at_open # None

\* pnl_pct >= PROFIT_TARGET at the last bar, pnl_pct taken against entry_value
ProfitReached ==
    PnlPctGE(bar.portfolio_value - bar.entry_value, bar.entry_value, cfg.PROFIT_TARGET)

\* pnl_pct <= -STOP_LOSS at the last bar
StopReached ==
    PnlPctLE(bar.portfolio_value - bar.entry_value, bar.entry_value, 0 - cfg.STOP_LOSS)

\* C17: with a position open at the start of a bar, pnl_pct >= PROFIT_TARGET
\* (boundary included) closes it at that bar with PROFIT TARGET, and
\* pnl_pct <= -STOP_LOSS (boundary included) without the profit condition
\* closes it with STOP LOSS; entry_value is the equity of the entry bar.
C17_ProfitAndStopClose ==
    /\ OpenAtBar =>
          /\ ProfitReached => bar.exit_reason = "PROFIT TARGET"
          /\ (~ProfitReached /\ StopReached) => bar.exit_reason = "STOP LOSS"
    /\ Entered => portfolio.entry_value = bar.portfolio_value

\* C18: when the bars-held counter of an open position has reached the
\* maximum hold on a bar on which neither profit target nor stop loss
\* fires, the position is closed at that bar with the time-limit reason,
\* whatever the RSI and the z-score are.
C18_TimeLimitClose ==
    (/\ OpenAtBar /\ bar.held >= cfg.MAX_HOLD
     /\ ~ProfitReached /\ ~StopReached
     /\ bar.exit_reason \notin {"PROFIT TARGET", "STOP LOSS"})
        => /\ bar.exit_reason = TimeLimit(cfg)
           /\ bar.entered = "" => current_position = None

\* C19: a MEAN REVERSION exit of the swing loop happens only with
\* days held >= MIN_HOLD_DAYS, the RSI across 50 and the z-score retraced
\* (short side: rsi < 50 and z < 0.5, long side: rsi > 50 and z > -0.5);
\* earlier, only profit target, stop loss or max hold close the position.
\* The scalp loop's reversion exit needs the RSI crossing only.
C19_MeanReversionExit ==
    /\ bar.exit_reason = "MEAN REVERSION" =>
          /\ cfg.variant = "swing" /\ bar.held >= cfg.MIN_HOLD
          /\ bar.position_at_open = SHORT_SPY => (bar.ratio_rsi < 50 /\ bar.ratio_zscore < 5)
          /\ bar.position_at_open = LONG_SPY => (bar.ratio_rsi > 50 /\ bar.ratio_zscore > -5)
    /\ (cfg.variant = "swing" /\ Exited /\ bar.held < cfg.MIN_HOLD) =>
          bar.exit_reason \in {"PROFIT TARGET", "STOP LOSS", "MAX HOLD"}
    /\ bar.exit_reason = "RSI REVERSION" =>
          /\ cfg.variant = "scalp"
          /\ bar.position_at_open = SHORT_SPY => bar.ratio_rsi < 50
          /\ bar.position_at_open = LONG_SPY => bar.ratio_rsi > 50
    /\ (/\ cfg.variant = "scalp" /\ bar.evaluated
        /\ bar.exit_reason \notin {"PROFIT TARGET", "STOP LOSS", "TIME LIMIT"}
        /\ \/ bar.position_at_open = SHORT_SPY /\ bar.ratio_rsi < 50
           \/ bar.position_at_open = LONG_SPY /\ bar.ratio_rsi > 50)
          => bar.exit_reason = "RSI REVERSION"

\* a swing position closed by mean reversion after a minimum hold
C19_Witness ==
    /\ bar.exit_reason = "MEAN REVERSION" /\ cfg.MIN_HOLD > 0
    /\ bar.held = cfg.MIN_HOLD /\ bar.held < cfg.MAX_HOLD

\* C20: a position is entered only with no position open and only on a
\* strict crossing: short SPY/long RSP only if ratio_rsi > RSI_OVERBOUGHT,
\* long SPY/short RSP only if ratio_rsi < RSI_OVERSOLD, in the swing loop
\* also z > ZSCORE_HIGH, respectively z < ZSCORE_LOW; an open position is
\* never replaced or resized.
C20_StrictEntryFromFlat ==
    /\ [](Entered =>
             /\ bar.position_at_open = None \/ Exited
             /\ current_position = bar.entered
             /\ bar.entered = SHORT_SPY =>
                   /\ bar.ratio_rsi > cfg.RSI_OVERBOUGHT
                   /\ cfg.variant = "swing" => bar.ratio_zscore > cfg.ZSCORE_HIGH
             /\ bar.entered = LONG_SPY =>
                   /\ bar.ratio_rsi < cfg.RSI_OVERSOLD
                   /\ cfg.variant = "swing" => bar.ratio_zscore < cfg.ZSCORE_LOW)
    /\ [][(current_position # None /\ bar_count' # bar_count /\ bar'.exit_reason = "")
             => (portfolio' = portfolio /\ current_position' = current_position)]_vars

\* a bar with the RSI exactly at the overbought level and no position: none entered
C20_Witness ==
    /\ bar_count > 0 /\ bar.position_at_open = None
    /\ bar.ratio_rsi = cfg.RSI_OVERBOUGHT /\ ~Entered /\ current_position = None

-----------------------------------------------------------------------------
(* Properties of AlpacaTrader *)

Skipped(reason) == cycle.outcome = "skip" /\ cycle.reason = reason

\* C3: in a cycle in which the broker reports an open order, run_once
\* submits no order, appends no trade record and changes nothing at the
\* broker; so at most one open order of the instrument exists at any time.
C3_OpenOrderGuard ==
    /\ cycle.has_open =>
          /\ Skipped("open order already exists")
          /\ cycle.submit_calls = 0 /\ cycle.placed = 0 /\ cycle.appended = 0
    /\ Len(open_orders) <= 1

\* a cycle with a tradable signal that was skipped for the open order
C3_Witness ==
    cycle.has_open /\ cycle.side = "buy" /\ iteration = 2 /\ Len(trade_log) = 1

\* C6: no broker error leaves run_once: the cycle is a skip and run()
\* performs its remaining iterations.
C6_ErrorsStayInCycle ==
    cycle.outcome # "raised" /\ pc # "crashed"

\* C7: every cycle that ends in an order, a skip or a rejection appends
\* exactly one trade record, with status submitted/dry_run, skipped or
\* rejected.
C7_OneRecordPerCycle ==
    cycle.outcome \in {"order", "skip", "rejected"} =>
        /\ cycle.appended = 1
        /\ trade_log[Len(trade_log)].status =
              (IF cycle.outcome = "skip" THEN "skipped"
               ELSE IF cycle.outcome = "rejected" THEN "rejected"
               ELSE IF trader.dry_run THEN "dry_run" ELSE "submitted")

\* the price the cap of the last cycle is measured at
CyclePrice == IF cycle.order_type = "limit" THEN cycle.limit_price[1] ELSE cycle.price

\* the rounding unit of the asset class
RoundingUnit == IF trader.asset_class = "stock" THEN QtyUnit ELSE 1

\* C9: with max_order_notional configured, the quantity of every order is
\* min(qty, floor(max_order_notional / price)) in the rounding of the asset
\* class, so qty * price <= max_order_notional; a capped quantity <= 0 skips
\* the cycle with 'quantity too small after notional cap' and submits
\* nothing.  The price is the limit price of a limit order, else the close.
C9_NotionalCap ==
    (IsSome(trader.max_order_notional) /\ cycle.adjusted > 0) =>
        LET max == trader.max_order_notional[1] * QtyUnit
        IN  /\ cycle.qty * CyclePrice <= max
            /\ cycle.qty <= cycle.adjusted
            /\ cycle.qty % RoundingUnit = 0
            /\ cycle.qty < cycle.adjusted => (cycle.qty + RoundingUnit) * CyclePrice > max
            /\ cycle.qty <= 0 =>
                  /\ Skipped("quantity too small after notional cap")
                  /\ cycle.submit_calls = 0 /\ cycle.placed = 0 /\ cycle.appended = 0
            /\ cycle.outcome = "order" =>
                  (cycle.qty > 0 /\ trade_log[Len(trade_log)].qty = cycle.qty)
            /\ cycle.placed > 0 => cycle.qty > 0

\* a limit order whose quantity the cap reduced
C9_Witness ==
    /\ IsSome(trader.max_order_notional) /\ cycle.outcome = "order"
    /\ cycle.order_type = "limit" /\ 0 < cycle.qty /\ cycle.qty < cycle.adjusted

\* C10: a buy is submitted only with a fetched net position <= 0, a sell only
\* with one >= 0; a buy against a long position is skipped as 'already
\* long', a sell against a short position as 'already short'.
C10_NoAveragingIn ==
    /\ (cycle.submit_calls > 0 \/ cycle.outcome = "order") =>
          /\ IsSome(cycle.fetched)
          /\ cycle.side = "buy" => cycle.fetched[1] <= 0
          /\ cycle.side = "sell" => cycle.fetched[1] >= 0
    /\ (IsSome(cycle.fetched) /\ cycle.side = "buy" /\ cycle.fetched[1] > 0)
          => (Skipped("already long") /\ cycle.submit_calls = 0)
    /\ (IsSome(cycle.fetched) /\ cycle.side = "sell" /\ cycle.fetched[1] < 0)
          => (Skipped("already short") /\ cycle.submit_calls = 0)

\* a buy signal against a long position that an earlier buy of the session built
C10_Witness ==
    Skipped("already long") /\ Len(trade_log) = 1 /\ trade_log[1].side = "buy"

\* the cycle passed every guard of run_once: a capped quantity > 0 remained
PassedGuards == cycle.adjusted > 0 /\ cycle.qty > 0

\* C11: for asset_class crypto a sell reaches submit_order only in a cycle
\* whose fetched net position is > 0; a sell signal against a net position
\* <= 0 is skipped and submit_order is not called.
C11_CryptoNeverShort ==
    (trader.asset_class = "crypto" /\ cycle.side = "sell") =>
        /\ (cycle.submit_calls > 0 \/ cycle.placed > 0 \/ cycle.outcome = "order")
              => (IsSome(cycle.fetched) /\ cycle.fetched[1] > 0)
        /\ (IsSome(cycle.fetched) /\ cycle.fetched[1] <= 0)
              => (/\ cycle.outcome = "skip"
                  /\ cycle.submit_calls = 0 /\ cycle.placed = 0 /\ cycle.appended = 0)

\* a crypto sell signal on a flat account, skipped
C11_Witness ==
    /\ trader.asset_class = "crypto" /\ cycle.side = "sell"
    /\ cycle.fetched = Some(0) /\ Skipped("crypto shorting disabled")

\* C12: in dry-run mode no cycle calls submit_order; a cycle that passes all
\* guards appends one record with order_id 'dry_run' and status dry_run; a
\* record has status dry_run only in dry-run mode.
C12_DryRun ==
    /\ trader.dry_run =>
          /\ cycle.submit_calls = 0 /\ cycle.placed = 0
          /\ PassedGuards =>
                /\ cycle.appended = 1
                /\ trade_log[Len(trade_log)].order_id = "dry_run"
                /\ trade_log[Len(trade_log)].status = "dry_run"
    /\ \A i \in 1..Len(trade_log) : trade_log[i].status = "dry_run" => trader.dry_run

\* C13: a position lookup answered with status 404 gives net position 0 and
\* the cycle goes on as for a flat account: it is not aborted by the lookup
\* and not skipped for an existing position.
C13_LookupNotFound ==
    cycle.lookup = 404 =>
        /\ cycle.fetched = Some(0)
        /\ cycle.raised # "get_position"
        /\ ~Skipped("already long") /\ ~Skipped("already short")
        /\ cycle.outcome = "skip" =>
              cycle.reason \in {"crypto shorting disabled", "share quantity too small",
                                "quantity too small after notional cap"}
        /\ PassedGuards =>
              \/ cycle.outcome \in {"order", "rejected"}
              \/ cycle.raised = "get_account"

\* an order submitted and recorded after a lookup answered with 404
C13_Witness ==
    cycle.lookup = 404 /\ cycle.outcome = "order" /\ cycle.placed = 1 /\ cycle.appended = 1

\* C14: a cycle calls submit_order at most once; a rejected submission ends
\* the cycle with no record appended and nothing changed at the trader or
\* the broker, and the run goes on with the next cycle.
C14_NoRetry ==
    [][iteration' # iteration =>
          /\ cycle'.submit_calls <= 1
          /\ cycle'.outcome = "rejected" =>
                /\ cycle'.submit_calls = 1
                /\ trade_log' = trade_log /\ open_orders' = open_orders
                /\ trader' = trader /\ net_position' = net_position
                /\ cycle'.appended = 0 /\ cycle'.placed = 0
                /\ pc' # "crashed"]_vars

\* the second cycle of a run was rejected after the first placed an order
C14_Witness ==
    /\ cycle.outcome = "rejected" /\ cycle.submit_calls = 1
    /\ iteration = 2 /\ Len(trade_log) = 1

\* C16: every record written by the trader has net_pnl = equity read when
\* it is written - equity captured at construction; starting_equity is never
\* reassigned.
C16_NetPnlSinceStart ==
    /\ [](\A i \in 1..Len(trade_log) :
             trade_log[i].net_pnl = trade_log[i].equity - trader.starting_equity)
    /\ [][trader'.starting_equity = trader.starting_equity]_vars

\* a second record whose equity differs from that of the first and from the
\* starting equity
C16_Witness ==
    /\ Len(trade_log) = 2
    /\ trade_log[1].equity # trader.starting_equity
    /\ trade_log[2].equity # trade_log[1].equity
    /\ trade_log[2].net_pnl = trade_log[2].equity - trader.starting_equity

\* C25: a cycle whose latest row has a zero or absent (missing, NaN) signal
\* produces no decision: it is skipped with the reason "no signal from
\* strategy" and submits no order, whatever the row's position, target_qty
\* and limit_price hold.
C25_NoSignalNoDecision ==
    (iteration > 0 /\ cycle.latest /\ cycle.signal = 0)
        => /\ Skipped("no signal from strategy")
           /\ ~cycle.decided
           /\ cycle.submit_calls = 0
           /\ cycle.appended = 0

\* C37: every order the broker accepted in a cycle (submit_order returned)
\* is followed in that cycle by exactly one appended record with status
\* submitted, also when the equity read made for the record fails.
C37_OrderRecorded ==
    cycle.placed > 0 =>
        /\ cycle.appended = 1
        /\ trade_log[Len(trade_log)].status = "submitted"

-----------------------------------------------------------------------------
(* Properties of TradeLogger *)

\* a is an initial segment of b
IsPrefix(a, b) == Len(a) <= Len(b) /\ SubSeq(b, 1, Len(a)) = a

\* C15: the trade file is append-only: over any sequence of TradeLogger
\* constructions and log_trade, log_skip, log_signal, get_trades and
\* get_session_summary calls every row written earlier stays in place and
\* unchanged; log_trade and log_skip append exactly one row, the other
\* calls none.
C15_AppendOnly ==
    [][/\ IsPrefix(trade_log, trade_log')
       /\ ledger'.calls # ledger.calls =>
             Len(trade_log') = Len(trade_log)
                 + (IF ledger'.op \in {"log_trade", "log_skip"} THEN 1 ELSE 0)]_vars

\* a TradeLogger constructed again on a trade file that holds two rows
C15_Witness ==
    ledger.op = "__init__" /\ ledger.calls >= 2 /\ Len(trade_log) = 2

\* a row that the summary counts as executed
IsExecuted(t) == t.status \notin {"skipped", "rejected", "none"}

\* the executed rows of the trade file
ExecutedRows == SelectSeq(trade_log, IsExecuted)

\* the last call was get_session_summary (it leaves the trade file as it is)
Summarised == ledger.op = "get_session_summary"

\* the identity result for the start_equity argument of the last call
IdentitySummary ==
    [total_trades |-> 0, buys |-> 0, sells |-> 0, wins |-> 0, losses |-> 0,
     win_rate |-> [defined |-> TRUE, num |-> 0, den |-> 1],
     net_pnl |-> 0,
     start_equity |-> ledger.start_equity, end_equity |-> ledger.start_equity,
     sharpe_ratio |-> "0.0", volatility |-> "0.0",
     max_drawdown |-> [defined |-> TRUE, num |-> 0, den |-> 1],
     avg_trade_pnl |-> [defined |-> TRUE, num |-> 0, den |-> 1]]

\* C26: get_session_summary on a trade file with no rows, or with skipped,
\* rejected and none rows only, returns the identity result: every count and
\* statistic is zero and start_equity = end_equity = the argument.
C26_EmptySummary ==
    (Summarised /\ \A i \in 1..Len(trade_log) :
                      trade_log[i].status \in {"skipped", "rejected", "none"})
        => ledger.summary = IdentitySummary

\* a summary of a file that holds a rejected and a skipped row and no other
C26_Witness ==
    /\ Summarised
    /\ Len(trade_log) >= 2
    /\ \E i \in 1..Len(trade_log) : trade_log[i].status = "rejected"
    /\ \E i \in 1..Len(trade_log) : trade_log[i].status = "skipped"
    /\ ExecutedRows = <<>>

\* C27: when the file holds executed rows but none with a valid (positive)
\* equity, the equity sequence falls back to start_equity and the summary is
\* the identity result, with total_trades = 0 and end_equity = start_equity.
C27_NoEquityIsIdentity ==
    (/\ Summarised
     /\ ExecutedRows # <<>>
     /\ \A i \in 1..Len(ExecutedRows) : ExecutedRows[i].equity <= 0)
        => ledger.summary = IdentitySummary

\* net_pnl of the executed row i less that of the executed row before it
\* (less 0 for the first)
PnlStep(i) ==
    ExecutedRows[i].net_pnl - (IF i > 1 THEN ExecutedRows[i - 1].net_pnl ELSE 0)

Wins == Cardinality({i \in 1..Len(ExecutedRows) : PnlStep(i) > 0})

Losses == Cardinality({i \in 1..Len(ExecutedRows) : PnlStep(i) < 0})

\* C28 (as amended): the summary counts a win for every executed row whose
\* net_pnl exceeds that of the executed row before it (0 for the first), a
\* loss for every one below it and neither for an equal one; win_rate is the
\* percentage 100 * wins / (wins + losses), a number in [0, 100], and 0 when
\* wins + losses = 0.
C28_WinRatePercent ==
    Summarised =>
        LET w == ledger.summary.win_rate
        IN  /\ ledger.summary.wins = Wins
            /\ ledger.summary.losses = Losses
            /\ w.defined
            /\ w.num * (Wins + Losses) = 100 * Wins * w.den
            /\ Wins + Losses = 0 => w.num = 0
            /\ 0 <= w.num /\ w.num <= 100 * w.den

\* a summary with a win and a loss
C28_Witness ==
    Summarised /\ ledger.summary.wins >= 1 /\ ledger.summary.losses >= 1

\* C28 as stated: the same counts, with win_rate the fraction
\* wins / (wins + losses) in [0, 1].
C28_WinRateFraction ==
    Summarised =>
        LET w == ledger.summary.win_rate
        IN  /\ ledger.summary.wins = Wins
            /\ ledger.summary.losses = Losses
            /\ w.defined
            /\ w.num * (Wins + Losses) = Wins * w.den
            /\ Wins + Losses = 0 => w.num = 0
            /\ 0 <= w.num /\ w.num <= w.den

\* a row with a valid equity
HasEquity(t) == t.equity > 0

\* the equity sequence of the executed rows
EquityTrail == SelectSeq(ExecutedRows, HasEquity)

\* C29: max_drawdown is the largest decline of the equity sequence of the
\* executed rows from an earlier point (a peak, the first point included) to
\* a later one, as a fraction of that peak (read here up to the sign and the
\* percent scale of the figure); it is 0 exactly when no point is below an
\* earlier one.
C29_MaxDrawdown ==
    (Summarised /\ EquityTrail # <<>>) =>
        LET n == Len(EquityTrail)
            e(i) == EquityTrail[i].equity
            d == ledger.summary.max_drawdown
        IN  /\ \E i \in 1..n : \E j \in i..n :
                  /\ Abs(d.num) * e(i) = 100 * (e(i) - e(j)) * d.den
                  /\ \A k \in 1..n : \A l \in k..n :
                        (e(k) - e(l)) * e(i) <= (e(i) - e(j)) * e(k)
            /\ d.num = 0 <=> \A k \in 1..n : \A l \in k..n : e(l) >= e(k)

-----------------------------------------------------------------------------
(* Properties of the live pair loop *)

\* C22: every termination of the live loop, by KeyboardInterrupt at any
\* point of it or otherwise, is preceded by exactly one close_all_positions
\* attempt of the shutdown, whose failure does not keep the script from
\* ending.
C22_FlattenBeforeTermination ==
    live.pc = "terminated" => live.flatten_attempts = 1

\* C23: a KeyboardInterrupt takes effect between cycles only (at the top of
\* the loop or in its sleep), never inside a cycle, so that a cycle that has
\* submitted its first leg submits the second and sets current_position
\* before the close_all_positions of the shutdown runs.
C23_InterruptBetweenCycles ==
    live.interrupted_at # "" => live.interrupted_at \in {"poll", "sleep"}

\* C24: on the same ratio RSI and equity observations and with the same
\* thresholds the live loop takes the actions of the scalp backtest: it
\* exits at the bars where the backtest exits (profit target, stop loss,
\* hold-time limit, RSI reversion), enters where it enters and holds the
\* same position.
C24_LiveMatchesScalp ==
    bar_count > 0 =>
        /\ (bar.exit_reason # "") <=> (live.action = "exit")
        /\ bar.entered = (IF live.action \in {SHORT_SPY, LONG_SPY} THEN live.action ELSE "")
        /\ current_position = live.current_position

\* the entry orders for a leg submitted since the last successful close
EntryOrders(leg) ==
    Cardinality({i \in 1..Len(live.outstanding) : live.outstanding[i] = leg})

\* C38: whenever current_position is None at the start of a cycle no entry
\* leg order submitted since the last successful close_all_positions is
\* outstanding; between two successful closes at most one entry order per
\* leg is submitted, also when a leg submission fails.
C38_LegsConsistent ==
    /\ (live.pc = "poll" /\ live.current_position = None) => live.outstanding = <<>>
    /\ EntryOrders("SPY") <= 1
    /\ EntryOrders("RSP") <= 1

\* the order book, the close calls and the position are what they were
LiveUntouched ==
    /\ live'.outstanding = live.outstanding
    /\ live'.closes = live.closes
    /\ live'.current_position = live.current_position

\* C39: a cycle whose ratio RSI is missing or NaN goes from get_ratio_rsi to
\* the sleep and back to the top of the loop: it submits no order, does not
\* call close_all_positions and leaves current_position as it is.
C39_UndefinedRsiNoAction ==
    [][/\ (/\ live.pc = "poll" /\ live'.cycles = live.cycles + 1
           /\ live'.ratio_rsi.kind \in {"None", "NaN"})
          => (live'.pc = "sleep" /\ live'.action = "" /\ LiveUntouched)
       /\ (/\ live.pc = "sleep" /\ live.ratio_rsi.kind \in {"None", "NaN"}
           /\ live'.pc # "shutdown")
          => (live'.pc = "poll" /\ LiveUntouched)]_vars

\* a cycle with a NaN ratio RSI has run while a position was held
C39_Witness ==
    /\ live.ratio_rsi.kind = "NaN"
    /\ live.pc = "sleep"
    /\ live.current_position # None

-----------------------------------------------------------------------------
(* Properties of calculate_rsi *)

\* C30: every defined value of calculate_rsi is in [0, 100], and the value
\* is undefined (NaN) at each of the first `period` rows.
C30_RsiRangeAndWarmup ==
    \A i \in 1..Len(series.rsi) :
        /\ series.rsi[i].defined =>
              0 <= series.rsi[i].num /\ series.rsi[i].num <= 100 * series.rsi[i].den
        /\ i <= series.period => ~series.rsi[i].defined

\* C31: at every row whose window of `period` rows has a rolling loss of 0
\* (a flat window included) calculate_rsi yields exactly 100, never NaN.
C31_ZeroLossIsHundred ==
    \A i \in series.period..Len(series.rsi) :
        RollingLoss(series.prices, i, series.period) = 0 =>
            series.rsi[i] = Ratio(100, 1)

-----------------------------------------------------------------------------
(* Leg signs and hold time of the bar loop *)

\* C35: while short_spy_long_rsp is held spy_shares <= 0 and rsp_shares >= 0,
\* while long_spy_short_rsp is held spy_shares >= 0 and rsp_shares <= 0, on
\* every price path, entries at zero or negative portfolio_value included.
C35_LegSigns ==
    /\ current_position = SHORT_SPY =>
          (portfolio.spy_shares <= 0 /\ portfolio.rsp_shares >= 0)
    /\ current_position = LONG_SPY =>
          (portfolio.spy_shares >= 0 /\ portfolio.rsp_shares <= 0)

\* C36: at the end of every bar with a position open the bars-held counter
\* is below the maximum hold, so that a position entered at bar t is closed
\* at bar t + MAX_HOLD at the latest.
C36_BoundedHold ==
    current_position # None => bars_in_position < cfg.MAX_HOLD

-----------------------------------------------------------------------------
(* Properties of the indicator frame *)

\* C32: a row of the swing frame whose rolling standard deviation is 0 changes
\* nothing in the backtest: no bar is processed at it, so no entry and no
\* exit is taken at it.
C32_FlatRowNoDecision ==
    [][(frame'.rows # frame.rows /\ frame'.zscore.flat) =>
          UNCHANGED <<bar_count, portfolio, current_position, bars_in_position>>]_vars

\* a flat row was read while a position was open
C32_Witness ==
    /\ frame.zscore.flat
    /\ current_position # None

-----------------------------------------------------------------------------
(* Properties of AlpacaTrader.__init__ *)

\* a crypto symbol that names a base and a quote currency: BASE/QUOTE with
\* either separator, or BASE followed by one of the known quote currencies
NamesQuoteCurrency(symbol) ==
    LET sym == ReplaceSeparators(Upper(Strip(symbol)))
    IN  \/ \E k \in 2..(Len(sym) - 1) :
              /\ sym[k] = "/"
              /\ \A j \in 1..Len(sym) : j # k => sym[j] # "/"
        \/ /\ ~HasSlash(sym)
           /\ \E k \in 1..Len(CRYPTO_QUOTE_SUFFIXES) :
                 /\ EndsWith(sym, CRYPTO_QUOTE_SUFFIXES[k])
                 /\ Len(sym) > Len(CRYPTO_QUOTE_SUFFIXES[k])

\* the arguments of the last construction are a configuration error
ConfigurationError ==
    \/ LowerClass(construction.asset_class) \notin {"stock", "crypto"}
    \/ /\ LowerClass(construction.asset_class) = "crypto"
       /\ ~NamesQuoteCurrency(construction.symbol_arg)
    \/ Strip(construction.symbol_arg) = <<>>
    \/ construction.lookback <= 0
    \/ IsSome(construction.max_order_notional) /\ construction.max_order_notional[1] <= 0

\* C33: a construction with an unrecognised asset class, a malformed symbol
\* or a non-positive sizing input raises ValueError before any broker call,
\* and no trader exists.
C33_ConfigErrorsFatal ==
    (construction.called /\ ConfigurationError) =>
        /\ construction.raised = "ValueError"
        /\ construction.broker_calls = 0
        /\ ~construction.constructed

-----------------------------------------------------------------------------
(* Properties of the results section *)

\* C34: a run over at least one bar ends normally with its summary printed,
\* whether or not a position was ever entered.
C34_SummaryPrinted ==
    (results.pc \notin {"idle", "loop"} /\ bar_count >= 1) =>
        /\ results.pc = "done"
        /\ results.printed
        /\ results.raised = ""

-----------------------------------------------------------------------------
(* Properties of the cash arithmetic in binary64 *)

\* |x - y| <= y / 2^50, for tuples x and y
Within64(x, y) ==
    LET d == IF FxLE(x, y) THEN FxSub(y, x) ELSE FxSub(x, y)
    IN  d[1] = 0 /\ d[2] = 0 /\ d[3] < 64 /\ 32 * (d[3] * Limb + d[4]) <= y[1]

\* the last bar closed a position at the prices of its entry
RoundTrip64 ==
    /\ portfolio64.op = "close"
    /\ portfolio64.spy_price = portfolio64.entry_spy_price
    /\ portfolio64.rsp_price = portfolio64.entry_rsp_price

\* the equity of the binary64 portfolio at the prices of its last bar
Equity64 ==
    PortfolioValue64(portfolio64.book, portfolio64.spy_price, portfolio64.rsp_price)

\* C21 (as amended): the entry operation followed by the exit operation at
\* the same prices returns the holdings to zero and the cash, and with it
\* the equity, to the pre-entry value up to the rounding of the float
\* additions: the cash differs from its pre-entry value by at most 2^-50 of
\* it, for both directions.
C21_RoundTripWithinRounding ==
    RoundTrip64 =>
        /\ portfolio64.book.spy_shares = 0
        /\ portfolio64.book.rsp_shares = 0
        /\ Within64(portfolio64.book.cash, portfolio64.cash_before)
        /\ Within64(Equity64, portfolio64.cash_before)

\* a round trip that does not return the cash to its pre-entry value
C21_Witness ==
    /\ RoundTrip64
    /\ portfolio64.book.cash # portfolio64.cash_before

\* C21 as stated: the round trip returns the cash to exactly its pre-entry
\* value and the holdings to zero.
C21_RoundTripExact ==
    RoundTrip64 =>
        /\ portfolio64.book.spy_shares = 0
        /\ portfolio64.book.rsp_shares = 0
        /\ portfolio64.book.cash = portfolio64.cash_before

====
